---------------------------- MODULE Spec2Model ----------------------------
(***************************************************************************)
(* A model of the display-width and segment-layout engine of the `rich`    *)
(* port: cells (cell_len, set_cell_size, chop_cells and the two LRU        *)
(* caches behind mutexes), segment (adjust_line_length, simplify) and      *)
(* utils/wrap (words, divide_line).                                        *)
(*                                                                         *)
(* Text is a sequence of Unicode scalar values (integers).  A Rust         *)
(* Option<T> is a sequence of length 0 (None) or 1 (Some).  A call that    *)
(* panics returns a record whose panic field is TRUE.                      *)
(***************************************************************************)
EXTENDS Integers, Sequences, FiniteSets, TLC

VARIABLES
    len_cache,   \* DEFAULT_CELL_LEN_CACHE: entries <<text, size>>, least recently used first
    cp_cache,    \* CODEPOINT_CELL_SIZE_CACHE: entries <<codepoint, size>>, least recently used first
    len_lock,    \* holder of the DEFAULT_CELL_LEN_CACHE mutex: <<>> or <<thread>>
    cp_lock,     \* holder of the CODEPOINT_CELL_SIZE_CACHE mutex: <<>> or <<thread>>
    len_poisoned,\* DEFAULT_CELL_LEN_CACHE's mutex is poisoned: a thread panicked holding it
    thr,         \* per thread: the call it is in and its position in it (concurrent runs)
    call,        \* the API call made (sequential runs): its name and arguments
    ret          \* what that call returned

vars == <<len_cache, cp_cache, len_lock, cp_lock, len_poisoned, thr, call, ret>>

---------------------------------------------------------------------------
(* Bounds of the model *)

\* longest text handed to set_cell_size, chop_cells and cell_len
MaxTextLen == 4
\* largest target width / max_size / start position
MaxTotal == 4

---------------------------------------------------------------------------
(* Characters *)

\* The characters texts are drawn from: space, 'a', U+00E9 (two bytes, in no
\* range of the width table), U+0300 (combining, zero width), U+1F63D (wide).
Alphabet == {32, 97, 233, 768, 128573}

\* char::is_ascii
IsAscii(c) == c < 128

\* The number of bytes of a character in a Rust str (UTF-8).
Utf8Len(c) == IF c < 128 THEN 1 ELSE IF c < 2048 THEN 2 ELSE IF c < 65536 THEN 3 ELSE 4

RECURSIVE ByteLen(_)
\* str::len: the length of a text in bytes
ByteLen(text) == IF text = <<>> THEN 0 ELSE Utf8Len(Head(text)) + ByteLen(Tail(text))

\* All texts of at most n characters over the alphabet A
TextsOver(A, n) == UNION {[1..k -> A] : k \in 0..n}

\* The first n characters of a text (chars().take(n))
Take(text, n) == SubSeq(text, 1, IF n < Len(text) THEN n ELSE Len(text))

RECURSIVE Reverse(_)
Reverse(s) == IF s = <<>> THEN <<>> ELSE Append(Reverse(Tail(s)), Head(s))

RECURSIVE Repeat(_, _)
\* " ".repeat(n) and the like
Repeat(c, n) == IF n <= 0 THEN <<>> ELSE <<c>> \o Repeat(c, n - 1)

---------------------------------------------------------------------------
(* The width table (cell_widths.rs): sorted, disjoint inclusive ranges *)

CELL_WIDTHS ==
    << [start |-> 1,      end |-> 31,     width |-> -1],
       [start |-> 127,    end |-> 159,    width |-> -1],
       [start |-> 768,    end |-> 879,    width |-> -1],
       [start |-> 4352,   end |-> 4447,   width |-> 2],
       [start |-> 12288,  end |-> 12350,  width |-> 2],
       [start |-> 128507, end |-> 128591, width |-> 2] >>

---------------------------------------------------------------------------
(* LruCache<K, V>: a sequence of <<key, value>>, least recently used first *)

\* LruCache::new(4096), scaled down so that entries are evicted
CacheCapacity == 2

\* cache only strings of at most this many bytes
MaxCachedBytes == 64

LruHas(cache, k) == \E i \in 1..Len(cache) : cache[i][1] = k

LruIndex(cache, k) == CHOOSE i \in 1..Len(cache) : cache[i][1] = k

LruRemove(cache, i) == SubSeq(cache, 1, i - 1) \o SubSeq(cache, i + 1, Len(cache))

\* LruCache::get: the value, and the entry becomes the most recently used
LruGet(cache, k) ==
    LET Found(i) == [hit |-> TRUE, val |-> cache[i][2],
                     cache |-> Append(LruRemove(cache, i), cache[i])]
    IN  IF LruHas(cache, k) THEN Found(LruIndex(cache, k))
        ELSE [hit |-> FALSE, val |-> 0, cache |-> cache]

\* LruCache::put that, on a full cache, reuses the slot of the least recently
\* used entry without replacing its key
LruPut_ReusesSlot(cache, k, v) ==
    IF LruHas(cache, k)
    THEN Append(LruRemove(cache, LruIndex(cache, k)), <<k, v>>)
    ELSE IF Len(cache) >= CacheCapacity
         THEN Append(Tail(cache), <<Head(cache)[1], v>>)
         ELSE Append(cache, <<k, v>>)

\* LruCache::put: insert or update as the most recently used entry, evicting
\* the least recently used one when the cache is full
LruPut(cache, k, v) ==
    IF LruHas(cache, k)
    THEN Append(LruRemove(cache, LruIndex(cache, k)), <<k, v>>)
    ELSE IF Len(cache) >= CacheCapacity
         THEN Append(Tail(cache), <<k, v>>)
         ELSE Append(cache, <<k, v>>)

---------------------------------------------------------------------------
(* cells: get_codepoint_cell_size, get_character_cell_size, cell_len *)

RECURSIVE BinarySearch_EndExclusive(_, _, _, _)
\* The loop of get_codepoint_cell_size with `codepoint >= end` for
\* `codepoint > end`: the last codepoint of a range is taken to lie above it
BinarySearch_EndExclusive(codepoint, lower_bound, upper_bound, index) ==
    LET e == CELL_WIDTHS[index + 1]
        upper == IF codepoint < e.start THEN index - 1 ELSE upper_bound
        lower == IF codepoint >= e.start /\ codepoint >= e.end THEN index + 1 ELSE lower_bound
    IN  IF codepoint >= e.start /\ codepoint < e.end
        THEN <<TRUE, IF e.width = -1 THEN 0 ELSE e.width>>
        ELSE IF upper < lower
             THEN <<FALSE, 1>>
             ELSE BinarySearch_EndExclusive(codepoint, lower, upper, (lower + upper) \div 2)

RECURSIVE BinarySearch(_, _, _, _)
\* The loop of get_codepoint_cell_size from the table read at `index` on:
\* <<TRUE, width>> when a range holds the codepoint, <<FALSE, 1>> otherwise.
BinarySearch(codepoint, lower_bound, upper_bound, index) ==
    LET e == CELL_WIDTHS[index + 1]
        upper == IF codepoint < e.start THEN index - 1 ELSE upper_bound
        lower == IF codepoint >= e.start /\ codepoint > e.end THEN index + 1 ELSE lower_bound
    IN  IF codepoint >= e.start /\ codepoint <= e.end
        THEN <<TRUE, IF e.width = -1 THEN 0 ELSE e.width>>
        ELSE IF upper < lower
             THEN <<FALSE, 1>>
             ELSE BinarySearch(codepoint, lower, upper, (lower + upper) \div 2)

\* get_codepoint_cell_size on the codepoint cache `cp`: [val, cp]
get_codepoint_cell_size(codepoint, cp) ==
    LET Searched(r) == IF r[1]
                       THEN [val |-> r[2], cp |-> LruPut(cp, codepoint, r[2])]
                       ELSE [val |-> 1, cp |-> cp]
        Got(g) == IF g.hit
                  THEN [val |-> g.val, cp |-> g.cache]
                  ELSE Searched(BinarySearch(codepoint, 0, Len(CELL_WIDTHS) - 1,
                                             (0 + Len(CELL_WIDTHS) - 1) \div 2))
    IN  Got(LruGet(cp, codepoint))

\* get_character_cell_size on the codepoint cache `cp`: [val, cp]
get_character_cell_size(char, cp) ==
    IF IsAscii(char) THEN [val |-> 1, cp |-> cp]
    ELSE get_codepoint_cell_size(char, cp)

RECURSIVE CharSizes(_, _)
\* text.chars().map(get_character_cell_size): [val: the sizes in order, cp]
CharSizes(text, cp) ==
    LET Rest(h, t) == [val |-> <<h.val>> \o t.val, cp |-> t.cp]
        First(h) == Rest(h, CharSizes(Tail(text), h.cp))
    IN  IF text = <<>> THEN [val |-> <<>>, cp |-> cp]
        ELSE First(get_character_cell_size(Head(text), cp))

RECURSIVE Sum(_)
Sum(s) == IF s = <<>> THEN 0 ELSE Head(s) + Sum(Tail(s))

\* cell_len without the test text.len() <= 64: every result is cached
cell_len_PutsAlways(text, cs) ==
    LET Put(total_size, cp) ==
            [val |-> total_size,
             cs |-> [len |-> LruPut(cs.len, text, total_size), cp |-> cp]]
        Summed(sizes) == Put(Sum(sizes.val), sizes.cp)
        Got(g) == IF g.hit
                  THEN [val |-> g.val, cs |-> [len |-> g.cache, cp |-> cs.cp]]
                  ELSE Summed(CharSizes(text, cs.cp))
    IN  Got(LruGet(cs.len, text))

\* cell_len(text, cache) on the caches cs = [len, cp]: [val, cs]
cell_len(text, cs) ==
    LET Put(total_size, cp) ==
            [val |-> total_size,
             cs |-> [len |-> IF ByteLen(text) <= MaxCachedBytes
                             THEN LruPut(cs.len, text, total_size)
                             ELSE cs.len,
                     cp |-> cp]]
        Summed(sizes) == Put(Sum(sizes.val), sizes.cp)
        Got(g) == IF g.hit
                  THEN [val |-> g.val, cs |-> [len |-> g.cache, cp |-> cs.cp]]
                  ELSE Summed(CharSizes(text, cs.cp))
    IN  Got(LruGet(cs.len, text))

\* The uncached computation: the sum of the table widths of the characters
Width(c) ==
    IF IsAscii(c) THEN 1
    ELSE IF \E i \in 1..Len(CELL_WIDTHS) : CELL_WIDTHS[i].start <= c /\ c <= CELL_WIDTHS[i].end
         THEN LET i == CHOOSE j \in 1..Len(CELL_WIDTHS) :
                           CELL_WIDTHS[j].start <= c /\ c <= CELL_WIDTHS[j].end
              IN  IF CELL_WIDTHS[i].width = -1 THEN 0 ELSE CELL_WIDTHS[i].width
         ELSE 1

RECURSIVE CellWidth(_)
CellWidth(text) == IF text = <<>> THEN 0 ELSE Width(Head(text)) + CellWidth(Tail(text))

---------------------------------------------------------------------------
(* cells: set_cell_size, chop_cells *)

RECURSIVE PopExcess_PopsAtZero(_, _)
\* PopExcess with the loop going on while excess >= 0
PopExcess_PopsAtZero(character_sizes, excess) ==
    IF excess >= 0 /\ Len(character_sizes) > 0
    THEN PopExcess_PopsAtZero(SubSeq(character_sizes, 1, Len(character_sizes) - 1),
                              excess - character_sizes[Len(character_sizes)])
    ELSE [character_sizes |-> character_sizes, excess |-> excess]

RECURSIVE PopExcess(_, _)
\* while excess > 0 && character_sizes.len() > 0 { excess -= character_sizes.pop() }
PopExcess(character_sizes, excess) ==
    IF excess > 0 /\ Len(character_sizes) > 0
    THEN PopExcess(SubSeq(character_sizes, 1, Len(character_sizes) - 1),
                   excess - character_sizes[Len(character_sizes)])
    ELSE [character_sizes |-> character_sizes, excess |-> excess]

\* set_cell_size without the backfill of the half cell a cut wide character leaves
set_cell_size_NoBackfill(text, total, cs) ==
    LET Cut(p, len, cp) ==
            [val |-> Take(text, Len(p.character_sizes)), cs |-> [len |-> len, cp |-> cp]]
        Sized(sizes, cell_size, len) ==
            Cut(PopExcess(sizes.val, cell_size - total), len, sizes.cp)
        Measured(c) ==
            IF c.val = total
            THEN [val |-> text, cs |-> c.cs]
            ELSE IF c.val < total
            THEN [val |-> text \o Repeat(32, total - c.val), cs |-> c.cs]
            ELSE Sized(CharSizes(text, c.cs.cp), c.val, c.cs.len)
    IN  Measured(cell_len(text, cs))

\* set_cell_size(text, total) on the caches cs: [val: the string, cs]
set_cell_size(text, total, cs) ==
    LET Cut(p, len, cp) ==
            [val |-> IF p.excess < 0
                     THEN Append(Take(text, Len(p.character_sizes)), 32)
                     ELSE Take(text, Len(p.character_sizes)),
             cs |-> [len |-> len, cp |-> cp]]
        Sized(sizes, cell_size, len) ==
            Cut(PopExcess(sizes.val, cell_size - total), len, sizes.cp)
        Measured(c) ==
            IF c.val = total
            THEN [val |-> text, cs |-> c.cs]
            ELSE IF c.val < total
            THEN [val |-> text \o Repeat(32, total - c.val), cs |-> c.cs]
            ELSE Sized(CharSizes(text, c.cs.cp), c.val, c.cs.len)
    IN  Measured(cell_len(text, cs))

RECURSIVE ChopLoop(_, _, _, _, _)
\* The while loop of chop_cells over the reversed characters still to read:
\* [panic, lines, cp].  lines.get_mut(len - 1).unwrap() panics on no line.
ChopLoop(characters, max_size, total_size, lines, cp) ==
    LET Step(character, size, cp1) ==
            IF (total_size + size) > max_size
            THEN ChopLoop(Tail(characters), max_size, size,
                          Append(lines, <<character>>), cp1)
            ELSE IF Len(lines) = 0
                 THEN [panic |-> TRUE, lines |-> lines, cp |-> cp1]
                 ELSE ChopLoop(Tail(characters), max_size, size,
                               [lines EXCEPT ![Len(lines)] = Append(@, character)],
                               cp1)
        Sized(character, s) == Step(character, s.val, s.cp)
    IN  IF characters = <<>>
        THEN [panic |-> FALSE, lines |-> lines, cp |-> cp]
        ELSE Sized(Head(characters), get_character_cell_size(Head(characters), cp))

\* chop_cells(text, max_size, position) on the codepoint cache: [panic, val, cp]
chop_cells(text, max_size, position, cp) ==
    LET Joined(r) == [panic |-> r.panic, val |-> r.lines, cp |-> r.cp]
    IN  Joined(ChopLoop(Reverse(text), max_size, position, <<>>, cp))

---------------------------------------------------------------------------
(* style: the parts of Style that Segment reads *)

\* Style::new(color, background_color, attributes, link); attributes is a set
\* of <<flag, value>>.  link_id is "" or "uuid", a freshly drawn UUID.
StyleNew(color, background_color, attributes, link) ==
    LET set_attributes == {a[1] : a \in attributes} IN
    [color |-> color,
     background_color |-> background_color,
     set_attributes |-> set_attributes,
     attributes |-> IF set_attributes # {} THEN {a[1] : a \in {b \in attributes : b[2]}}
                    ELSE {},
     link |-> link,
     link_id |-> IF link # <<>> THEN "uuid" ELSE "",
     null |-> ~(set_attributes # {} \/ color # <<>> \/ background_color # <<>>
                \/ link # <<>>)]

\* impl Clone for Style: a fresh link_id when there is a link, and null: false
StyleClone(style) ==
    [style EXCEPT !.link_id = IF style.link # <<>> THEN "uuid" ELSE "",
                  !.null = FALSE]

\* Option<Style>::clone
OptStyleClone(style) == IF style = <<>> THEN <<>> ELSE <<StyleClone(style[1])>>

\* Style equality with the background colours compared
StyleEq_Bg(a, b) ==
    /\ a.color = b.color
    /\ a.background_color = b.background_color
    /\ a.set_attributes = b.set_attributes
    /\ a.attributes = b.attributes
    /\ a.link = b.link

\* impl PartialEq for Style
StyleEq(a, b) ==
    /\ a.color = b.color
    /\ a.background_color = a.background_color
    /\ a.set_attributes = b.set_attributes
    /\ a.attributes = b.attributes
    /\ a.link = b.link

\* Option<Style> == Option<Style>
OptStyleEq(a, b) ==
    IF a = <<>> \/ b = <<>> THEN a = <<>> /\ b = <<>> ELSE StyleEq(a[1], b[1])

---------------------------------------------------------------------------
(* segment: Segment, cell_len, adjust_line_length *)

\* Segment::new
SegmentNew(text, style, is_control) ==
    [text |-> text, style |-> style, is_control |-> is_control]

\* #[derive(Clone)] for Segment
SegmentClone(segment) == [segment EXCEPT !.style = OptStyleClone(@)]

\* Option<Segment>::clone
OptSegmentClone(segment) == IF segment = <<>> THEN <<>> ELSE <<SegmentClone(segment[1])>>

\* Segment::cell_len on the caches cs: [val, cs]
segment_cell_len(segment, cs) ==
    IF segment.is_control THEN [val |-> 0, cs |-> cs]
    ELSE cell_len(segment.text, cs)

RECURSIVE LineLength(_, _)
\* line.iter().map(|s| s.cell_len()).sum(): [val, cs]
LineLength(line, cs) ==
    LET Rest(h, t) == [val |-> h.val + t.val, cs |-> t.cs]
        First(h) == Rest(h, LineLength(Tail(line), h.cs))
    IN  IF line = <<>> THEN [val |-> 0, cs |-> cs]
        ELSE First(segment_cell_len(Head(line), cs))

RECURSIVE CloneAll(_)
\* line.iter().cloned().collect()
CloneAll(line) ==
    IF line = <<>> THEN <<>> ELSE <<SegmentClone(Head(line))>> \o CloneAll(Tail(line))

RECURSIVE CropLoop(_, _, _, _, _)
\* The for loop of the over-length branch of adjust_line_length over the
\* segments still to read: [val: new_line, cs]
CropLoop(line, length, line_length, new_line, cs) ==
    LET Cropped(segment, t) ==
            CropLoop(Tail(line), length, line_length,
                     Append(new_line, SegmentNew(t.val, OptStyleClone(segment.style), FALSE)),
                     t.cs)
        Step(segment, l) ==
            IF (line_length + l.val) < length \/ segment.is_control
            THEN CropLoop(Tail(line), length, line_length + l.val,
                          Append(new_line, SegmentClone(segment)), l.cs)
            ELSE CHOOSE r \in {Cropped(segment, t) :
                                   t \in {set_cell_size(segment.text, length - line_length,
                                                        l.cs)}} : TRUE
    IN  IF line = <<>> THEN [val |-> new_line, cs |-> cs]
        ELSE CHOOSE r \in {Step(Head(line), l) :
                               l \in {segment_cell_len(Head(line), cs)}} : TRUE

\* Segment::adjust_line_length(line, length, style, padding): [val, cs]
adjust_line_length(line, length, style, padding, cs) ==
    LET pad == IF padding = <<>> THEN TRUE ELSE padding[1]
        Measured(ll) ==
            IF ll.val < length
            THEN IF pad
                 THEN [val |-> CloneAll(Append(line,
                                   SegmentNew(Repeat(32, length - ll.val), style, FALSE))),
                       cs |-> ll.cs]
                 ELSE [val |-> CloneAll(line), cs |-> ll.cs]
            ELSE IF ll.val > length
            THEN CropLoop(line, length, 0, <<>>, ll.cs)
            ELSE [val |-> CloneAll(line), cs |-> ll.cs]
    IN  CHOOSE r \in {Measured(ll) : ll \in {LineLength(line, cs)}} : TRUE

---------------------------------------------------------------------------
(* style: combine; segment: apply_style *)

\* style.combine(style2), style2 an Option<&Style>: [panic, val].  The match
\* on the two link ids has an unreachable!() arm for two ids that are set.
combine(style, style2) ==
    LET Combined(t) ==
            IF t.null THEN [panic |-> FALSE, val |-> StyleClone(style)]
            ELSE IF style.null THEN [panic |-> FALSE, val |-> StyleClone(t)]
            ELSE IF style.link_id # "" /\ t.link_id # ""
            THEN [panic |-> TRUE, val |-> style]
            ELSE [panic |-> FALSE,
                  val |-> [StyleClone(style) EXCEPT
                      !.color = IF style.color # <<>> THEN style.color ELSE t.color,
                      !.background_color = IF style.background_color # <<>>
                                           THEN style.background_color
                                           ELSE t.background_color,
                      !.attributes = (style.attributes \ style.set_attributes)
                                     \cup (t.attributes \cap t.set_attributes),
                      !.set_attributes = style.set_attributes \cup t.set_attributes,
                      !.link = IF style.link # <<>> THEN style.link ELSE t.link,
                      !.link_id = IF style.link_id = "" THEN t.link_id
                                  ELSE style.link_id,
                      !.null = (style.null \/ t.null)]]
    IN  IF style2 = <<>> THEN [panic |-> FALSE, val |-> StyleClone(style)]
        ELSE Combined(style2[1])

RECURSIVE ApplyLoop(_, _)
\* segments.into_iter().map(..) of apply_style, collected: [panic, val]
ApplyLoop(segments, style) ==
    LET s == Head(segments)
        Rest(head, r) == [panic |-> r.panic, val |-> IF r.panic THEN <<>>
                                                     ELSE <<head>> \o r.val]
        Styled(c) ==
            IF c.panic THEN [panic |-> TRUE, val |-> <<>>]
            ELSE Rest(SegmentNew(s.text, <<c.val>>, s.is_control),
                      ApplyLoop(Tail(segments), style))
    IN  IF segments = <<>> THEN [panic |-> FALSE, val |-> <<>>]
        ELSE IF style = <<>>
        THEN Rest(SegmentClone(s), ApplyLoop(Tail(segments), style))
        ELSE IF s.is_control
        THEN Rest(SegmentNew(s.text, <<>>, s.is_control), ApplyLoop(Tail(segments), style))
        ELSE Styled(combine(style[1], s.style))

\* Segment::apply_style(segments, style), collected: [panic, val]
apply_style(segments, style) == ApplyLoop(segments, style)

---------------------------------------------------------------------------
(* segment: split_lines, split_and_crop_lines, set_shape *)

\* '\n'
NewLine == 10

RECURSIVE IndexOf(_, _, _)
\* the position of the first c in text from position i on, 0 when there is none
IndexOf(text, c, i) ==
    IF i > Len(text) THEN 0
    ELSE IF text[i] = c THEN i ELSE IndexOf(text, c, i + 1)

\* text.splitn(2, '\n').collect(): one part, or the parts before and after
\* the first newline
Splitn2(text) ==
    LET At(i) == IF i = 0 THEN <<text>>
                 ELSE <<SubSeq(text, 1, i - 1), SubSeq(text, i + 1, Len(text))>>
    IN  At(IndexOf(text, NewLine, 1))

RECURSIVE SplitText(_, _, _, _)
\* while !text.is_empty() of split_lines: [line, res]
SplitText(text, style, line, res) ==
    LET Parts(parts) ==
            IF Len(parts) = 2
            THEN SplitText(parts[2], style, <<>>,
                           Append(res, Append(line,
                               SegmentNew(parts[1], OptStyleClone(style), FALSE))))
            ELSE SplitText(<<>>, style,
                           Append(line, SegmentNew(parts[1], OptStyleClone(style), FALSE)),
                           res)
    IN  IF text = <<>> THEN [line |-> line, res |-> res]
        ELSE Parts(Splitn2(text))

\* split_lines that splits control segments at their newlines too
RECURSIVE SplitLinesLoop_SplitsControl(_, _, _)
SplitLinesLoop_SplitsControl(segments, line, res) ==
    LET segment == Head(segments)
        After(r) == SplitLinesLoop_SplitsControl(Tail(segments), r.line, r.res)
    IN  IF segments = <<>>
        THEN IF line # <<>> THEN Append(res, line) ELSE res
        ELSE IF IndexOf(segment.text, NewLine, 1) # 0
        THEN After(SplitText(segment.text, segment.style, line, res))
        ELSE SplitLinesLoop_SplitsControl(Tail(segments),
                                          Append(line, SegmentClone(segment)), res)

RECURSIVE SplitLinesLoop(_, _, _)
\* for segment in segments of split_lines, then the push of the last line
SplitLinesLoop(segments, line, res) ==
    LET segment == Head(segments)
        After(r) == SplitLinesLoop(Tail(segments), r.line, r.res)
    IN  IF segments = <<>>
        THEN IF line # <<>> THEN Append(res, line) ELSE res
        ELSE IF IndexOf(segment.text, NewLine, 1) # 0 /\ ~segment.is_control
        THEN After(SplitText(segment.text, segment.style, line, res))
        ELSE SplitLinesLoop(Tail(segments), Append(line, SegmentClone(segment)), res)

\* Segment::split_lines(segments)
split_lines(segments) == SplitLinesLoop(segments, <<>>, <<>>)

\* Segment::line(is_control)
SegmentLine(is_control) ==
    SegmentNew(<<NewLine>>, <<>>, IF is_control = <<>> THEN FALSE ELSE is_control[1])

RECURSIVE CropText(_, _, _, _, _, _, _, _)
\* while !text.is_empty() of split_and_crop_lines: [line, res, cs].  `style`
\* is the style of the segment (let (mut text, style, _) = segment.as_tuple()).
CropText(text, style, length, padding, include_new_lines, line, res, cs) ==
    LET Cropped(a) ==
            CropText(Splitn2(text)[2], style, length, padding, include_new_lines, <<>>,
                     Append(res, IF include_new_lines
                                 THEN Append(a.val, SegmentClone(SegmentLine(<<>>)))
                                 ELSE a.val),
                     a.cs)
        Pushed(new_line) ==
            IF Len(Splitn2(text)) = 2
            THEN Cropped(adjust_line_length(new_line, length, OptStyleClone(style),
                                            padding, cs))
            ELSE CropText(<<>>, style, length, padding, include_new_lines, new_line,
                          res, cs)
    IN  IF text = <<>> THEN [line |-> line, res |-> res, cs |-> cs]
        ELSE Pushed(Append(line, SegmentNew(Splitn2(text)[1], OptStyleClone(style), FALSE)))

RECURSIVE SplitAndCropLoop(_, _, _, _, _, _, _, _)
\* for segment in segments of split_and_crop_lines, then the last line: [val, cs]
SplitAndCropLoop(segments, length, style, padding, include_new_lines, line, res, cs) ==
    LET segment == Head(segments)
        After(r) == SplitAndCropLoop(Tail(segments), length, style, padding,
                                     include_new_lines, r.line, r.res, r.cs)
        Last(a) == [val |-> Append(res, a.val), cs |-> a.cs]
    IN  IF segments = <<>>
        THEN IF line # <<>>
             THEN Last(adjust_line_length(line, length, style, padding, cs))
             ELSE [val |-> res, cs |-> cs]
        ELSE IF IndexOf(segment.text, NewLine, 1) # 0 /\ ~segment.is_control
        THEN After(CropText(segment.text, segment.style, length, padding,
                            include_new_lines, line, res, cs))
        ELSE SplitAndCropLoop(Tail(segments), length, style, padding, include_new_lines,
                              Append(line, SegmentClone(segment)), res, cs)

\* Segment::split_and_crop_lines(segments, length, style, padding,
\* include_new_lines): [val, cs]
split_and_crop_lines(segments, length, style, padding, include_new_lines, cs) ==
    SplitAndCropLoop(segments, length, style, padding,
                     IF include_new_lines = <<>> THEN TRUE ELSE include_new_lines[1],
                     <<>>, <<>>, cs)

RECURSIVE ShapeLoop(_, _, _, _, _, _, _)
\* lines.iter().zip_longest(0..height).map(..).collect() from pair i on:
\* [val, cs]
ShapeLoop(lines, width, height, style, i, res, cs) ==
    LET Adjusted(a) == ShapeLoop(lines, width, height, style, i + 1,
                                 Append(res, a.val), a.cs)
        pad_line == <<SegmentNew(Repeat(32, width), OptStyleClone(style), FALSE)>>
    IN  IF i > Len(lines) /\ i > height THEN [val |-> res, cs |-> cs]
        ELSE IF i <= Len(lines)
        THEN Adjusted(adjust_line_length(lines[i], width, OptStyleClone(style), <<>>, cs))
        ELSE ShapeLoop(lines, width, height, style, i + 1,
                       Append(res, CloneAll(pad_line)), cs)

\* Segment::set_shape(lines, width, height, style): [val, cs]
set_shape(lines, width, height, style, cs) ==
    ShapeLoop(lines, width, IF height = <<>> THEN Len(lines) ELSE height[1], style,
              1, <<>>, cs)

---------------------------------------------------------------------------
(* segment: simplify (SimplifiedSegments) *)

RECURSIVE MergeLoop(_, _)
\* The while loop of SimplifiedSegments::next with `last_segment` in hand over
\* the inner segments still to read: [item, inner, last_segment], the last
\* being the iterator's field after the call.
MergeLoop(last_segment, inner) ==
    IF inner = <<>>
    THEN [item |-> <<SegmentClone(last_segment)>>, inner |-> inner, last_segment |-> <<>>]
    ELSE LET segment == Head(inner) IN
         IF OptStyleEq(last_segment.style, segment.style) /\ ~segment.is_control
         THEN MergeLoop(SegmentNew(last_segment.text \o segment.text,
                                   OptStyleClone(last_segment.style), FALSE),
                        Tail(inner))
         ELSE [item |-> <<last_segment>>, inner |-> Tail(inner),
               last_segment |-> <<SegmentClone(segment)>>]

\* SimplifiedSegments::next on the iterator it = [inner, last_segment]:
\* [item: Option<Segment>, inner, last_segment]
SimplifiedSegmentsNext(it) ==
    LET last_segment == IF it.last_segment = <<>>
                        THEN IF it.inner = <<>> THEN <<>>
                             ELSE <<SegmentClone(Head(it.inner))>>
                        ELSE OptSegmentClone(it.last_segment)
        inner == IF it.last_segment = <<>> /\ it.inner # <<>> THEN Tail(it.inner)
                 ELSE it.inner
    IN  IF last_segment # <<>>
        THEN MergeLoop(SegmentClone(last_segment[1]), inner)
        ELSE [item |-> <<>>, inner |-> inner, last_segment |-> <<>>]

RECURSIVE CollectSimplified(_)
\* .collect::<Vec<Segment>>() of the iterator
CollectSimplified(it) ==
    LET Got(n) ==
            IF n.item = <<>> THEN <<>>
            ELSE n.item \o CollectSimplified([inner |-> n.inner,
                                              last_segment |-> n.last_segment])
    IN  Got(SimplifiedSegmentsNext(it))

\* Segment::simplify(segments).collect()
simplify(segments) == CollectSimplified([inner |-> segments, last_segment |-> <<>>])

---------------------------------------------------------------------------
(* utils/wrap: words, the WordsMatchIterator over the regex WORDS: any
   whitespace, then one or more non-whitespace characters, then any whitespace *)

\* the characters \s matches and trim_end removes (Unicode White_Space)
WhiteSpace == {9, 10, 11, 12, 13, 32, 133, 160, 5760, 8232, 8233, 8239, 8287, 12288}
                  \cup (8192..8202)

IsSpace(c) == c \in WhiteSpace

RECURSIVE SkipSpaces(_, _)
\* the position after the run of whitespace that starts after `pos` characters
SkipSpaces(text, pos) ==
    IF pos < Len(text) /\ IsSpace(text[pos + 1]) THEN SkipSpaces(text, pos + 1) ELSE pos

RECURSIVE SkipWord(_, _)
\* the position after the run of non-whitespace that starts after `pos` characters
SkipWord(text, pos) ==
    IF pos < Len(text) /\ ~IsSpace(text[pos + 1]) THEN SkipWord(text, pos + 1) ELSE pos

\* FindAt for a pattern without the trailing \s*: the match ends with the word
FindAt_NoTrailingSpace(text, current_position) ==
    LET Matched(word_from) ==
            IF word_from >= Len(text) THEN <<>>
            ELSE <<[from |-> current_position, to |-> SkipWord(text, word_from)]>>
    IN  Matched(SkipSpaces(text, current_position))

\* WORDS.find_at(text, current_position): <<>> or the match <<[from, to]>>, in
\* characters.  The match takes the leading whitespace and needs one
\* non-whitespace character at least.
FindAt(text, current_position) ==
    LET Matched(word_from) ==
            IF word_from >= Len(text) THEN <<>>
            ELSE <<[from |-> current_position,
                    to |-> SkipSpaces(text, SkipWord(text, word_from))]>>
    IN  Matched(SkipSpaces(text, current_position))

\* the byte offset of the position after `pos` characters (Match::start, Match::end)
ByteOffset(text, pos) == ByteLen(SubSeq(text, 1, pos))

RECURSIVE WordsFrom(_, _)
\* WordsMatchIterator: the items (start, end, word) from current_position on,
\* start and end in bytes
WordsFrom(text, current_position) ==
    LET Item(m) ==
            IF m = <<>> THEN <<>>
            ELSE <<[start |-> ByteOffset(text, m[1].from),
                    end |-> ByteOffset(text, m[1].to),
                    word |-> SubSeq(text, m[1].from + 1, m[1].to)]>>
                 \o WordsFrom(text, m[1].to)
    IN  Item(FindAt(text, current_position))

\* words(text)
words(text) == WordsFrom(text, 0)

RECURSIVE TrimEnd(_)
\* str::trim_end
TrimEnd(text) ==
    IF text # <<>> /\ IsSpace(text[Len(text)])
    THEN TrimEnd(SubSeq(text, 1, Len(text) - 1))
    ELSE text

---------------------------------------------------------------------------
(* utils/wrap: divide_line *)

RECURSIVE FoldLoop_NoAdvance(_, _, _, _, _)
\* FoldLoop without `start += line.len()`: every chunk but the last pushes
\* the start of the word
FoldLoop_NoAdvance(lines, start, divides, line_position, cs) ==
    LET Last(c) == [divides |-> divides, line_position |-> c.val, cs |-> c.cs]
    IN  IF lines = <<>>
        THEN [divides |-> divides, line_position |-> line_position, cs |-> cs]
        ELSE IF Len(lines) = 1
        THEN Last(cell_len(Head(lines), cs))
        ELSE FoldLoop_NoAdvance(Tail(lines), start, Append(divides, start),
                                line_position, cs)

RECURSIVE FoldLoop(_, _, _, _, _)
\* for (last, line) in loop_last(chop_cells(..)) over the chunks still to read:
\* [divides, line_position, cs]
FoldLoop(lines, start, divides, line_position, cs) ==
    LET Last(c) == [divides |-> divides, line_position |-> c.val, cs |-> c.cs]
    IN  IF lines = <<>>
        THEN [divides |-> divides, line_position |-> line_position, cs |-> cs]
        ELSE IF Len(lines) = 1
        THEN Last(cell_len(Head(lines), cs))
        ELSE FoldLoop(Tail(lines), start + ByteLen(Head(lines)),
                      Append(divides, start + ByteLen(Head(lines))), line_position, cs)

RECURSIVE DivideLoop(_, _, _, _, _, _)
\* The for loop of divide_line over the words still to read:
\* [panic, divides, cs]
DivideLoop(ws, width, fold, divides, line_position, cs) ==
    LET w == Head(ws)
        Next(r) == DivideLoop(Tail(ws), width, fold, r.divides, r.line_position, r.cs)
        Reset(new_divides, c) ==
            Next([divides |-> new_divides, line_position |-> c.val, cs |-> c.cs])
        Add(c) ==
            Next([divides |-> divides, line_position |-> line_position + c.val, cs |-> c.cs])
        Chopped(ch, len) ==
            IF ch.panic
            THEN [panic |-> TRUE, divides |-> divides, cs |-> [len |-> len, cp |-> ch.cp]]
            ELSE Next(FoldLoop(ch.val, w.start, divides, line_position,
                               [len |-> len, cp |-> ch.cp]))
        Measured(wl) ==
            IF line_position + wl.val > width
            THEN IF wl.val > width
                 THEN IF fold
                      THEN Chopped(chop_cells(w.word, width, line_position, wl.cs.cp),
                                   wl.cs.len)
                      ELSE Reset(IF w.start > 0 THEN Append(divides, w.start) ELSE divides,
                                 cell_len(w.word, wl.cs))
                 ELSE IF line_position > 0 /\ w.start > 0
                      THEN Reset(Append(divides, w.start), cell_len(w.word, wl.cs))
                      ELSE Next([divides |-> divides, line_position |-> line_position,
                                 cs |-> wl.cs])
            ELSE Add(cell_len(w.word, wl.cs))
    IN  IF ws = <<>>
        THEN [panic |-> FALSE, divides |-> divides, cs |-> cs]
        ELSE Measured(cell_len(TrimEnd(w.word), cs))

\* divide_line(text, width, fold) on the caches cs: [panic, val: divides, cs]
divide_line(text, width, fold, cs) ==
    LET Returned(r) == [panic |-> r.panic, val |-> r.divides, cs |-> r.cs]
    IN  Returned(DivideLoop(words(text), width, IF fold = <<>> THEN TRUE ELSE fold[1],
                            <<>>, 0, cs))

---------------------------------------------------------------------------
(* Sequential runs: one API call on freshly constructed (empty) caches *)

NoThreads == [t \in {} |-> 0]

InitCall ==
    /\ len_cache = <<>>
    /\ cp_cache = <<>>
    /\ len_lock = <<>>
    /\ cp_lock = <<>>
    /\ len_poisoned = FALSE
    /\ thr = NoThreads
    /\ call = [op |-> "none"]
    /\ ret = [panic |-> FALSE, val |-> <<>>]

Caches == [len |-> len_cache, cp |-> cp_cache]

Texts == TextsOver(Alphabet, MaxTextLen)

\* a call of set_cell_size(text, total)
SetCellSize ==
    /\ call.op = "none"
    /\ \E text \in Texts, total \in 0..MaxTotal :
         \E r \in {set_cell_size(text, total, Caches)} :
         /\ call' = [op |-> "set_cell_size", text |-> text, total |-> total]
         /\ ret' = [panic |-> FALSE, val |-> r.val]
         /\ len_cache' = r.cs.len
         /\ cp_cache' = r.cs.cp
    /\ UNCHANGED <<len_lock, cp_lock, len_poisoned, thr>>

\* a call of chop_cells(text, max_size, position)
ChopCells ==
    /\ call.op = "none"
    /\ \E text \in Texts, max_size \in 0..MaxTotal, position \in 0..MaxTotal :
         \E r \in {chop_cells(text, max_size, position, cp_cache)} :
         /\ call' = [op |-> "chop_cells", text |-> text, max_size |-> max_size,
                     position |-> position]
         /\ ret' = [panic |-> r.panic, val |-> r.val]
         /\ cp_cache' = r.cp
    /\ UNCHANGED <<len_cache, len_lock, cp_lock, len_poisoned, thr>>

NextCells == SetCellSize \/ ChopCells

SpecCells == InitCall /\ [][NextCells]_vars

---------------------------------------------------------------------------
(* C1: for every text and every target >= 0, the text set_cell_size returns
   is exactly target cells wide: padded when the text is narrower, truncated
   when it is wider, with one space backfilled when the cut falls inside a
   double-width character. *)
C1_SetCellSizeExact ==
    call.op = "set_cell_size" => cell_len(ret.val, Caches).val = call.total

\* a text cut inside a double-width character, backfilled with one space
C1_Witness ==
    /\ call.op = "set_cell_size"
    /\ CellWidth(call.text) > call.total
    /\ Len(ret.val) > 0
    /\ ret.val[Len(ret.val)] = 32
    /\ Len(ret.val) <= Len(call.text)
    /\ call.text[Len(ret.val)] = 128573
    /\ cell_len(ret.val, Caches).val = call.total

(* C11: set_cell_size(text, 0) is the empty string for every text, also for
   a text that begins with, or is made only of, zero-width characters. *)
C11_ZeroTargetGivesEmpty ==
    (call.op = "set_cell_size" /\ call.total = 0) => ret.val = <<>>

\* the length of the longest prefix of the text that is at most total cells wide
LongestPrefix(text, total) ==
    CHOOSE n \in 0..Len(text) :
        /\ CellWidth(Take(text, n)) <= total
        /\ \A k \in (n + 1)..Len(text) : CellWidth(Take(text, k)) > total

(* C23: when the text is wider than the target, set_cell_size returns the
   longest prefix of the text, in characters, that is at most target cells
   wide, followed by exactly one space when that prefix is target - 1 cells
   wide and by nothing otherwise. *)
C23_TruncatesToLongestPrefix ==
    (call.op = "set_cell_size" /\ CellWidth(call.text) > call.total) =>
        LET prefix == Take(call.text, LongestPrefix(call.text, call.total))
        IN  ret.val = prefix \o (IF CellWidth(prefix) = call.total - 1
                                 THEN <<32>> ELSE <<>>)

\* a text cut after a zero-width character: the prefix returned ends with
\* it, and a character of the text is left out
C23_Witness ==
    /\ call.op = "set_cell_size"
    /\ CellWidth(call.text) > call.total
    /\ call.total > 0
    /\ ret.val = Take(call.text, Len(ret.val))
    /\ Len(ret.val) < Len(call.text)
    /\ Len(ret.val) > 0
    /\ ret.val[Len(ret.val)] = 768
    /\ Len(ret.val) = LongestPrefix(call.text, call.total)

RECURSIVE Concat(_)
\* the concatenation of a sequence of texts
Concat(texts) == IF texts = <<>> THEN <<>> ELSE Head(texts) \o Concat(Tail(texts))

(* C14: whenever chop_cells returns, the chunks it returns, concatenated in
   the order returned, are exactly the input text. *)
C14_ChunksConcatToText ==
    (call.op = "chop_cells" /\ ~ret.panic) => Concat(ret.val) = call.text

(* C15: for a max_size at least as large as the widest character of the
   text, each chunk chop_cells returns is at most max_size cells wide, and
   the width of the first chunk plus the start position is at most max_size
   (for a start position that leaves room, position <= max_size). *)
C15_ChunksWidthBounded ==
    (/\ call.op = "chop_cells"
     /\ ~ret.panic
     /\ \A i \in 1..Len(call.text) : Width(call.text[i]) <= call.max_size)
        => /\ \A i \in 1..Len(ret.val) : CellWidth(ret.val[i]) <= call.max_size
           /\ (Len(ret.val) > 0 /\ call.position <= call.max_size)
                 => CellWidth(ret.val[1]) + call.position <= call.max_size

---------------------------------------------------------------------------
(* Sequential runs of the Segment operations *)

\* longest line handed to adjust_line_length and simplify, in segments
MaxSegs == 2

\* the texts of the segments
SegTexts == {<<>>, <<97>>, <<97, 97>>, <<128573>>}

\* the styles of the segments: none, red, red on blue, blue, red with a link
SegStyles ==
    {<<>>,
     <<StyleNew(<<"red">>, <<>>, {}, <<>>)>>,
     <<StyleNew(<<"red">>, <<"blue">>, {}, <<>>)>>,
     <<StyleNew(<<"blue">>, <<>>, {}, <<>>)>>}

Segments ==
    {SegmentNew(text, style, is_control) :
        text \in SegTexts \ {<<>>}, style \in SegStyles, is_control \in BOOLEAN}

\* the segments of the lines handed to adjust_line_length
LineSegments ==
    {SegmentNew(text, style, is_control) :
        text \in SegTexts, style \in {<<>>, <<StyleNew(<<"red">>, <<>>, {}, <<>>)>>},
        is_control \in BOOLEAN}

SeqsOver(S, n) == UNION {[1..k -> S] : k \in 0..n}

\* a call of Segment::adjust_line_length(line, length, style, padding)
AdjustLineLength ==
    /\ call.op = "none"
    /\ \E line \in SeqsOver(LineSegments, MaxSegs), length \in 0..MaxTotal,
          style \in {<<>>, <<StyleNew(<<"blue">>, <<>>, {}, <<>>)>>},
          padding \in {<<>>, <<TRUE>>, <<FALSE>>} :
         \E r \in {adjust_line_length(line, length, style, padding, Caches)} :
         /\ call' = [op |-> "adjust_line_length", line |-> line, length |-> length,
                     style |-> style, padding |-> padding]
         /\ ret' = [panic |-> FALSE, val |-> r.val]
         /\ len_cache' = r.cs.len
         /\ cp_cache' = r.cs.cp
    /\ UNCHANGED <<len_lock, cp_lock, len_poisoned, thr>>

\* a call of Segment::simplify(segments), collected, and of simplify on the result
Simplify ==
    /\ call.op = "none"
    /\ \E segments \in SeqsOver(Segments, MaxSegs + 1) :
         /\ call' = [op |-> "simplify", segments |-> segments]
         /\ ret' = [panic |-> FALSE, val |-> simplify(segments)]
    /\ UNCHANGED <<len_cache, cp_cache, len_lock, cp_lock, len_poisoned, thr>>

NextSegment == AdjustLineLength \/ Simplify

SpecSegment == InitCall /\ [][NextSegment]_vars

---------------------------------------------------------------------------
(* What the claims about segments compare *)

\* two optional styles agree in colour, background colour, set attributes,
\* attribute values and link
SameStyle(a, b) ==
    IF a = <<>> \/ b = <<>> THEN a = <<>> /\ b = <<>> ELSE StyleEq_Bg(a[1], b[1])

SameSegment(x, y) ==
    x.text = y.text /\ SameStyle(x.style, y.style) /\ x.is_control = y.is_control

SameSegments(xs, ys) ==
    Len(xs) = Len(ys) /\ \A i \in 1..Len(xs) : SameSegment(xs[i], ys[i])

RECURSIVE ControlsOf(_)
\* the control segments of a sequence, in order
ControlsOf(segments) ==
    IF segments = <<>> THEN <<>>
    ELSE (IF Head(segments).is_control THEN <<Head(segments)>> ELSE <<>>)
         \o ControlsOf(Tail(segments))

RECURSIVE TextLen(_, _)
\* the number of characters of the first n segments
TextLen(segments, n) ==
    IF n = 0 THEN 0 ELSE Len(segments[n].text) + TextLen(segments, n - 1)

\* the output has a segment boundary right after input segment i
BoundaryAfter(input, output, i) ==
    \E j \in 1..Len(output) : TextLen(output, j) = TextLen(input, i)

(* C2: for every line and every length N >= 0, adjust_line_length with
   padding = true returns segments whose cell_len() values sum to exactly N. *)
C2_AdjustedLengthExact ==
    (call.op = "adjust_line_length" /\ call.padding \in {<<>>, <<TRUE>>})
        => LineLength(ret.val, Caches).val = call.length

\* the cells a segment takes: none for a control segment
SegWidth(segment) == IF segment.is_control THEN 0 ELSE CellWidth(segment.text)

RECURSIVE LineWidth(_)
\* the cells a line takes
LineWidth(line) == IF line = <<>> THEN 0 ELSE SegWidth(Head(line)) + LineWidth(Tail(line))

(* C12: when the line is wider than length, adjust_line_length returns the
   leading segments that fit whole, then exactly one segment truncated with
   set_cell_size to the remaining budget, and after it no non-control
   segment of the input. *)
C12_CropShape ==
    (call.op = "adjust_line_length" /\ LineWidth(call.line) > call.length)
        => \E k \in 1..Len(ret.val) :
              /\ k <= Len(call.line)
              /\ \A j \in 1..(k - 1) : SameSegment(ret.val[j], call.line[j])
              /\ LineWidth(SubSeq(call.line, 1, k - 1)) <= call.length
              /\ ~call.line[k].is_control
              /\ ~ret.val[k].is_control
              /\ ret.val[k].text =
                     set_cell_size(call.line[k].text,
                                   call.length - LineWidth(SubSeq(call.line, 1, k - 1)),
                                   Caches).val
              /\ SameStyle(ret.val[k].style, call.line[k].style)
              /\ \A j \in (k + 1)..Len(ret.val) : ret.val[j].is_control

(* C5: simplify is idempotent: simplifying the collected result of simplify
   gives the same segment list again. *)
C5_SimplifyIdempotent ==
    call.op = "simplify" => SameSegments(simplify(ret.val), ret.val)

(* C6: every control segment of the input of simplify appears in the output
   unchanged (same text, same style, still a control segment), merged neither
   with the segment before it nor with the one after it. *)
C6_ControlPassedThrough ==
    call.op = "simplify" => SameSegments(ControlsOf(ret.val), ControlsOf(call.segments))

(* C7: simplify merges two consecutive non-control segments only when their
   styles are identical in every component; segments whose styles differ
   (in background colour only, say) stay separate in the output. *)
C7_MergeOnlyIdenticalStyles ==
    call.op = "simplify" =>
        \A i \in 1..(Len(call.segments) - 1) :
            (/\ ~call.segments[i].is_control
             /\ ~call.segments[i + 1].is_control
             /\ ~SameStyle(call.segments[i].style, call.segments[i + 1].style))
                => BoundaryAfter(call.segments, ret.val, i)

---------------------------------------------------------------------------
(* Sequential runs of the line wrapper *)

\* longest text handed to divide_line
MaxLineLen == 5
\* largest width handed to divide_line
MaxWidth == 3

\* a call of divide_line(text, width, fold)
DivideLine ==
    /\ call.op = "none"
    /\ \E text \in TextsOver(Alphabet, MaxLineLen), width \in 0..MaxWidth,
          fold \in {<<>>, <<TRUE>>, <<FALSE>>} :
         \E r \in {divide_line(text, width, fold, Caches)} :
         /\ call' = [op |-> "divide_line", text |-> text, width |-> width, fold |-> fold]
         /\ ret' = [panic |-> r.panic, val |-> r.val]
         /\ len_cache' = r.cs.len
         /\ cp_cache' = r.cs.cp
    /\ UNCHANGED <<len_lock, cp_lock, len_poisoned, thr>>

NextWrap == DivideLine

SpecWrap == InitCall /\ [][NextWrap]_vars

\* one call of any of the three text operations
NextText == SetCellSize \/ ChopCells \/ DivideLine

SpecText == InitCall /\ [][NextText]_vars

RECURSIVE Piece(_, _, _, _)
\* the characters of text that start at a byte offset in from..(to - 1),
\* read from character i on
Piece(text, from, to, i) ==
    IF i > Len(text) THEN <<>>
    ELSE (IF from <= ByteOffset(text, i - 1) /\ ByteOffset(text, i - 1) < to
          THEN <<text[i]>> ELSE <<>>)
         \o Piece(text, from, to, i + 1)

\* the cut points of a division: the start, the offsets, the end
Cuts(text, divides) == <<0>> \o divides \o <<ByteLen(text)>>

FoldOf(fold) == IF fold = <<>> THEN TRUE ELSE fold[1]

(* C3: with fold = true and a width of 2 or more, the pieces obtained by
   cutting the text at the offsets divide_line returns (and at its start and
   end) are each at most width cells wide.  The whitespace that ends a piece
   is left out of its width, as the wrapper leaves it out of a word's. *)
C3_WrapBounded ==
    (/\ call.op = "divide_line"
     /\ FoldOf(call.fold)
     /\ call.width >= 2
     /\ ~ret.panic)
        => \A i \in 1..(Len(ret.val) + 1) :
              CellWidth(TrimEnd(Piece(call.text, Cuts(call.text, ret.val)[i],
                                      Cuts(call.text, ret.val)[i + 1], 1)))
                  <= call.width

(* C4: divide_line, chop_cells and set_cell_size return normally, with no
   panic, for every text, width or max_size (0 included), start position and
   fold value. *)
C4_NoPanic ==
    call.op \in {"divide_line", "chop_cells", "set_cell_size"} => ~ret.panic

(* C9: when divide_line returns, its offsets are strictly increasing and
   each offset o lies strictly inside the text, 0 < o < length of text; the
   offsets and the length are both in the unit of str::len, bytes of the
   UTF-8 encoding. *)
C9_OffsetsIncreasingInside ==
    (call.op = "divide_line" /\ ~ret.panic)
        => /\ \A i \in 1..Len(ret.val) :
                0 < ret.val[i] /\ ret.val[i] < ByteLen(call.text)
           /\ \A i \in 1..(Len(ret.val) - 1) : ret.val[i] < ret.val[i + 1]

\* a call that returns two offsets at least, on a text with a character of
\* several bytes
C9_Witness ==
    /\ call.op = "divide_line"
    /\ ~ret.panic
    /\ Len(ret.val) >= 2
    /\ ByteLen(call.text) > Len(call.text)
    /\ \A i \in 1..Len(ret.val) : 0 < ret.val[i] /\ ret.val[i] < ByteLen(call.text)
    /\ \A i \in 1..(Len(ret.val) - 1) : ret.val[i] < ret.val[i + 1]

\* a word of the text starts after p characters, p > 0: a character that is
\* no whitespace follows a whitespace character
WordStartsAt(text, p) ==
    /\ 0 < p /\ p < Len(text)
    /\ IsSpace(text[p])
    /\ ~IsSpace(text[p + 1])

(* C27: with fold = false every offset divide_line returns is the start of
   a word other than position 0, at most one offset for a word: no offset
   lies inside a word or inside the whitespace between two words. *)
C27_UnfoldedOffsetsAreWordStarts ==
    (call.op = "divide_line" /\ call.fold = <<FALSE>> /\ ~ret.panic) =>
        /\ \A i \in 1..Len(ret.val) :
              \E p \in 1..Len(call.text) :
                  ByteOffset(call.text, p) = ret.val[i] /\ WordStartsAt(call.text, p)
        /\ \A i \in 1..Len(ret.val) : \A j \in 1..Len(ret.val) :
              ret.val[i] = ret.val[j] => i = j

\* an unfolded call that returns an offset after a character of several
\* bytes and a run of two spaces
C27_Witness ==
    /\ call.op = "divide_line"
    /\ call.fold = <<FALSE>>
    /\ ~ret.panic
    /\ Len(ret.val) >= 1
    /\ \E p \in 3..Len(call.text) :
          /\ ByteOffset(call.text, p) = ret.val[Len(ret.val)]
          /\ ByteOffset(call.text, p) > p
          /\ IsSpace(call.text[p - 1])
          /\ WordStartsAt(call.text, p)
    /\ \A i \in 1..Len(ret.val) :
          \E p \in 1..Len(call.text) :
              ByteOffset(call.text, p) = ret.val[i] /\ WordStartsAt(call.text, p)

(* C10: every offset divide_line returns is a character index, the number
   of characters of the text before the split, also when the text holds
   characters of several bytes. *)
C10_OffsetsAreCharIndices ==
    (call.op = "divide_line" /\ ~ret.panic)
        => \A i \in 1..Len(ret.val) :
              \E k \in 0..Len(call.text) :
                  ByteOffset(call.text, k) = ret.val[i] /\ k = ret.val[i]

---------------------------------------------------------------------------
(* The iterator of words(text), one call of next() at a step, and calls of
   divide_line, on texts of letters and whitespace of two kinds *)

\* texts over a space, a no-break space (whitespace of two bytes) and a letter
WordTexts == TextsOver({32, 160, 97}, MaxLineLen)

\* words(text): the iterator, current_position 0
StartWords ==
    /\ call.op = "none"
    /\ \E text \in WordTexts :
         call' = [op |-> "words", text |-> text, current_position |-> 0,
                  items |-> <<>>, pc |-> "iter"]
    /\ UNCHANGED <<len_cache, cp_cache, len_lock, cp_lock, len_poisoned, thr, ret>>

\* WordsNext without self.current_position = word.end()
WordsNext_KeepsPosition ==
    /\ call.op = "words"
    /\ call.pc = "iter"
    /\ \E m \in {FindAt(call.text, call.current_position)} :
         call' = IF m = <<>> THEN [call EXCEPT !.pc = "done"]
                 ELSE [call EXCEPT !.items = Append(@, m[1])]
    /\ UNCHANGED <<len_cache, cp_cache, len_lock, cp_lock, len_poisoned, thr, ret>>

\* WordsMatchIterator::next: None ends the iteration; a match moves
\* current_position to its end and is yielded.  Positions in characters.
WordsNext ==
    /\ call.op = "words"
    /\ call.pc = "iter"
    /\ \E m \in {FindAt(call.text, call.current_position)} :
         call' = IF m = <<>> THEN [call EXCEPT !.pc = "done"]
                 ELSE [call EXCEPT !.current_position = m[1].to,
                                   !.items = Append(@, m[1])]
    /\ UNCHANGED <<len_cache, cp_cache, len_lock, cp_lock, len_poisoned, thr, ret>>

\* a call of divide_line(text, width, fold)
DivideWordTexts ==
    /\ call.op = "none"
    /\ \E text \in WordTexts, width \in 0..MaxWidth,
          fold \in {<<>>, <<TRUE>>, <<FALSE>>} :
         \E r \in {divide_line(text, width, fold, Caches)} :
         /\ call' = [op |-> "divide_line", text |-> text, width |-> width, fold |-> fold]
         /\ ret' = [panic |-> r.panic, val |-> r.val]
         /\ len_cache' = r.cs.len
         /\ cp_cache' = r.cs.cp
    /\ UNCHANGED <<len_lock, cp_lock, len_poisoned, thr>>

NextWords == StartWords \/ WordsNext \/ DivideWordTexts

\* an iteration that has started goes on
SpecWords == InitCall /\ [][NextWords]_vars /\ WF_vars(WordsNext)

\* the iterator is in use
Iterating == call.op = "words" /\ call.pc = "iter"

\* the text is empty or all whitespace
Blank(text) == \A i \in 1..Len(text) : text[i] \in WhiteSpace

\* a match moves the scan position forward
Advances ==
    (Iterating /\ Iterating') => call.current_position' > call.current_position

(* C28: the tokenization into words terminates for every text: each match
   moves the scan position forward and the scan stops at the end of the
   text.  An empty or all-whitespace text has no word, and divide_line
   returns no offset for it, for every width and every fold. *)
C28_TokenizationTerminates ==
    /\ [][Advances]_vars
    /\ [](Iterating => call.current_position <= Len(call.text))
    /\ Iterating ~> (call.op = "words" /\ call.pc = "done")
    /\ []((call.op = "words" /\ Blank(call.text)) => call.items = <<>>)
    /\ []((call.op = "divide_line" /\ Blank(call.text)) =>
              (~ret.panic /\ ret.val = <<>>))

\* the iteration of a text of three words between whitespace of both kinds
\* has ended at the end of the text
C28_Witness ==
    /\ call.op = "words"
    /\ call.pc = "done"
    /\ Len(call.items) = 3
    /\ call.current_position = Len(call.text)
    /\ \E i \in 1..Len(call.text) : call.text[i] = 160
    /\ \E i \in 1..Len(call.text) : call.text[i] = 32

---------------------------------------------------------------------------
(* Sequential runs of the operations on lines of segments *)

\* the texts of the segments that are split at newlines
SplitTexts == {<<>>, <<97>>, <<10>>, <<97, 10>>, <<10, 97>>, <<10, 10>>, <<97, 10, 97>>}

\* the segments that are split: plain or red text, and control segments
SplitSegments ==
    {SegmentNew(text, style, FALSE) :
        text \in SplitTexts, style \in {<<>>, <<StyleNew(<<"red">>, <<>>, {}, <<>>)>>}}
    \cup {SegmentNew(text, <<>>, TRUE) : text \in SplitTexts}

\* a call of Segment::split_lines(segments)
SplitLines ==
    /\ call.op = "none"
    /\ \E segments \in SeqsOver(SplitSegments, MaxSegs) :
         /\ call' = [op |-> "split_lines", segments |-> segments]
         /\ ret' = [panic |-> FALSE, val |-> split_lines(segments)]
    /\ UNCHANGED <<len_cache, cp_cache, len_lock, cp_lock, len_poisoned, thr>>

NextSplit == SplitLines

SpecSplit == InitCall /\ [][NextSplit]_vars

\* a call of Segment::split_and_crop_lines(segments, length, style, padding,
\* include_new_lines)
SplitAndCropLines ==
    /\ call.op = "none"
    /\ \E segments \in SeqsOver(SplitSegments, MaxSegs), length \in 0..MaxWidth,
          style \in {<<>>, <<StyleNew(<<"blue">>, <<>>, {}, <<>>)>>},
          padding \in {<<>>, <<TRUE>>, <<FALSE>>},
          include_new_lines \in {<<>>, <<TRUE>>, <<FALSE>>} :
         \E r \in {split_and_crop_lines(segments, length, style, padding,
                                        include_new_lines, Caches)} :
         /\ call' = [op |-> "split_and_crop_lines", segments |-> segments,
                     length |-> length, style |-> style, padding |-> padding,
                     include_new_lines |-> include_new_lines]
         /\ ret' = [panic |-> FALSE, val |-> r.val]
         /\ len_cache' = r.cs.len
         /\ cp_cache' = r.cs.cp
    /\ UNCHANGED <<len_lock, cp_lock, len_poisoned, thr>>

\* the lines handed to set_shape
ShapeLines ==
    {<<>>, <<SegmentNew(<<97>>, <<>>, FALSE)>>,
     <<SegmentNew(<<97, 97>>, <<>>, FALSE), SegmentNew(<<97>>, <<>>, FALSE)>>}

\* a call of Segment::set_shape(lines, width, height, style)
SetShape ==
    /\ call.op = "none"
    /\ \E lines \in SeqsOver(ShapeLines, MaxSegs), width \in 0..MaxWidth,
          height \in {<<>>} \cup {<<h>> : h \in 0..(MaxSegs + 1)},
          style \in {<<>>, <<StyleNew(<<"blue">>, <<>>, {}, <<>>)>>} :
         \E r \in {set_shape(lines, width, height, style, Caches)} :
         /\ call' = [op |-> "set_shape", lines |-> lines, width |-> width,
                     height |-> height, style |-> style]
         /\ ret' = [panic |-> FALSE, val |-> r.val]
         /\ len_cache' = r.cs.len
         /\ cp_cache' = r.cs.cp
    /\ UNCHANGED <<len_lock, cp_lock, len_poisoned, thr>>

NextLines == SplitAndCropLines \/ SetShape

SpecLines == InitCall /\ [][NextLines]_vars

RECURSIVE Without(_, _)
\* the text without its characters c
Without(text, c) ==
    IF text = <<>> THEN <<>>
    ELSE (IF Head(text) = c THEN <<>> ELSE <<Head(text)>>) \o Without(Tail(text), c)

RECURSIVE TextOf(_)
\* the texts of the segments, read in order
TextOf(segments) ==
    IF segments = <<>> THEN <<>> ELSE Head(segments).text \o TextOf(Tail(segments))

RECURSIVE TextSplitOf(_)
\* the texts of the segments read in order, the newlines of the segments that
\* are no control segments left out
TextSplitOf(segments) ==
    IF segments = <<>> THEN <<>>
    ELSE (IF Head(segments).is_control THEN Head(segments).text
          ELSE Without(Head(segments).text, NewLine))
         \o TextSplitOf(Tail(segments))

RECURSIVE NewLinesOf(_)
\* the number of newlines in the segments that are no control segments
NewLinesOf(segments) ==
    IF segments = <<>> THEN 0
    ELSE (IF Head(segments).is_control THEN 0
          ELSE Len(Head(segments).text) - Len(Without(Head(segments).text, NewLine)))
         + NewLinesOf(Tail(segments))

\* what C16 says of the lines returned for the segments
SplitAsClaimed(segments, lines) ==
    /\ \A i \in 1..Len(lines) : \A j \in 1..Len(lines[i]) :
          ~lines[i][j].is_control => IndexOf(lines[i][j].text, NewLine, 1) = 0
    /\ TextOf(Concat(lines)) = TextSplitOf(segments)
    /\ SameSegments(ControlsOf(Concat(lines)), ControlsOf(segments))
    /\ Len(lines) \in {NewLinesOf(segments), NewLinesOf(segments) + 1}

(* C16: split_lines consumes every newline of a non-control segment as a
   line boundary: no non-control segment of an output line holds a newline,
   the texts of the output segments read in order are the input text with
   those newlines removed, and every control segment is copied whole, also
   when its text holds a newline. *)
C16_SplitLinesConsumesNewlines ==
    call.op = "split_lines" => SplitAsClaimed(call.segments, ret.val)

\* a call on a control segment with a newline and a text segment with a
\* newline between two characters: two lines come back
C16_Witness ==
    /\ call.op = "split_lines"
    /\ \E i \in 1..Len(call.segments) :
          call.segments[i].is_control /\ IndexOf(call.segments[i].text, NewLine, 1) # 0
    /\ \E i \in 1..Len(call.segments) :
          ~call.segments[i].is_control /\ call.segments[i].text = <<97, 10, 97>>
    /\ Len(ret.val) = 2
    /\ SplitAsClaimed(call.segments, ret.val)

(* C13: set_shape returns exactly height lines, lines.len() when height is
   absent: blank lines of width spaces are appended when height is larger
   than the number of lines, the excess lines are dropped when smaller. *)
C13_ShapeHasHeightLines ==
    call.op = "set_shape" =>
        LET height == IF call.height = <<>> THEN Len(call.lines) ELSE call.height[1]
        IN  /\ Len(ret.val) = height
            /\ \A i \in (Len(call.lines) + 1)..Len(ret.val) :
                  /\ Len(ret.val[i]) = 1
                  /\ ret.val[i][1].text = Repeat(32, call.width)

\* the line of the result for line i of split_lines, as C17 states it
CroppedAsClaimed(i) ==
    adjust_line_length(split_lines(call.segments)[i], call.length, call.style,
                       call.padding, Caches).val
    \o (IF (call.include_new_lines = <<>> \/ call.include_new_lines = <<TRUE>>)
           /\ i <= NewLinesOf(call.segments)
        THEN <<SegmentLine(<<>>)>> ELSE <<>>)

(* C17: split_and_crop_lines returns, line for line, adjust_line_length(l,
   length, style, padding) of each line l of split_lines(segments), the
   caller's style being the padding style of every line, with one line-break
   segment appended to each newline-terminated line when include_new_lines
   is true. *)
C17_CropIsAdjustOfSplit ==
    call.op = "split_and_crop_lines" =>
        /\ Len(ret.val) = Len(split_lines(call.segments))
        /\ \A i \in 1..Len(ret.val) : SameSegments(ret.val[i], CroppedAsClaimed(i))

---------------------------------------------------------------------------
(* The while loops of split_lines and split_and_crop_lines over the text of
   one segment, one iteration at a step *)

RECURSIVE Splitn_NoLimit(_, _)
\* Splitn that keeps splitting after n - 1 splits
Splitn_NoLimit(text, n) ==
    LET At(i) == IF i = 0 THEN <<text>>
                 ELSE <<SubSeq(text, 1, i - 1)>>
                      \o Splitn_NoLimit(SubSeq(text, i + 1, Len(text)), n)
    IN  IF n = 0 THEN <<>> ELSE At(IndexOf(text, NewLine, 1))

RECURSIVE Splitn(_, _)
\* text.splitn(n, '\n').collect(): at most n parts, the last one the rest of
\* the text; the empty text gives one empty part
Splitn(text, n) ==
    LET At(i) == IF i = 0 THEN <<text>>
                 ELSE <<SubSeq(text, 1, i - 1)>>
                      \o Splitn(SubSeq(text, i + 1, Len(text)), n - 1)
    IN  IF n = 0 THEN <<>>
        ELSE IF n = 1 THEN <<text>>
        ELSE At(IndexOf(text, NewLine, 1))

\* the texts with a newline, of up to MaxTextLen characters
LoopTexts == {text \in TextsOver({97, NewLine}, MaxTextLen) : IndexOf(text, NewLine, 1) # 0}

\* split_lines or split_and_crop_lines on one segment that is no control
\* segment, has no style and holds a newline, up to the while loop;
\* split_and_crop_lines with no style, padding and include_new_lines given
StartSplitLoop ==
    /\ call.op = "none"
    /\ \E op \in {"split_lines", "split_and_crop_lines"}, text \in LoopTexts,
          length \in {0, MaxWidth} :
         call' = [op |-> op, pc |-> "while", text |-> text, length |-> length,
                  line |-> <<>>, res |-> <<>>]
    /\ UNCHANGED <<len_cache, cp_cache, len_lock, cp_lock, len_poisoned, thr, ret>>

\* the arm [_text, next] of the match: the line that is pushed to res,
\* cropped and ended with the line break in split_and_crop_lines: [val, cs]
TwoParts(parts) ==
    LET line == Append(call.line, SegmentNew(parts[1], <<>>, FALSE))
        Broken(a) == [val |-> Append(a.val, SegmentLine(<<>>)), cs |-> a.cs]
    IN  IF call.op = "split_lines" THEN [val |-> line, cs |-> Caches]
        ELSE Broken(adjust_line_length(line, call.length, <<>>, <<>>, Caches))

\* one iteration of while !text.is_empty(): the match on the parts of
\* text.splitn(2, '\n'), unreachable!() for a number of parts other than
\* one and two
SplitStep ==
    /\ call.op \in {"split_lines", "split_and_crop_lines"}
    /\ call.pc = "while"
    /\ call.text # <<>>
    /\ \E parts \in {Splitn(call.text, 2)} :
         \E a \in {IF Len(parts) = 2 THEN TwoParts(parts)
                   ELSE [val |-> <<>>, cs |-> Caches]} :
         /\ call' = IF Len(parts) = 2
                    THEN [call EXCEPT !.text = parts[2], !.line = <<>>,
                                      !.res = Append(@, a.val)]
                    ELSE IF Len(parts) = 1
                    THEN [call EXCEPT !.text = <<>>,
                                      !.line = Append(@, SegmentNew(parts[1], <<>>, FALSE))]
                    ELSE [call EXCEPT !.pc = "panicked"]
         /\ len_cache' = a.cs.len
         /\ cp_cache' = a.cs.cp
    /\ UNCHANGED <<len_lock, cp_lock, len_poisoned, thr, ret>>

\* the end of the loop and of the call: the last line is pushed when it is
\* not empty, cropped first in split_and_crop_lines
SplitDone ==
    /\ call.op \in {"split_lines", "split_and_crop_lines"}
    /\ call.pc = "while"
    /\ call.text = <<>>
    /\ \E a \in {IF call.op = "split_lines" \/ call.line = <<>>
                 THEN [val |-> call.line, cs |-> Caches]
                 ELSE adjust_line_length(call.line, call.length, <<>>, <<>>, Caches)} :
         /\ call' = [call EXCEPT !.pc = "done"]
         /\ ret' = [panic |-> FALSE,
                    val |-> IF call.line = <<>> THEN call.res
                            ELSE Append(call.res, a.val)]
         /\ len_cache' = a.cs.len
         /\ cp_cache' = a.cs.cp
    /\ UNCHANGED <<len_lock, cp_lock, len_poisoned, thr>>

NextSplitLoop == StartSplitLoop \/ SplitStep \/ SplitDone

\* a call that has started goes on
SpecSplitLoop ==
    InitCall /\ [][NextSplitLoop]_vars /\ WF_vars(SplitStep) /\ WF_vars(SplitDone)

\* the call is inside its while loop
InSplitLoop == call.op \in {"split_lines", "split_and_crop_lines"} /\ call.pc = "while"

\* the text left to split has one part or two
OneOrTwoParts ==
    (InSplitLoop /\ call.text # <<>>) => Len(Splitn(call.text, 2)) \in {1, 2}

\* the unreachable!() arm was not taken
NotUnreachable == call.op # "none" => call.pc # "panicked"

\* an iteration makes the text left strictly shorter
TextShrinks == (InSplitLoop /\ call.text # <<>>) => Len(call.text') < Len(call.text)

(* C26: in split_lines and split_and_crop_lines the unreachable!() arm is
   never reached: every non-empty remaining text, split at most once on a
   newline, has exactly one or two parts, and the inner loop terminates
   because the remaining text shrinks strictly. *)
C26_SplitArmUnreachable ==
    /\ [](OneOrTwoParts /\ NotUnreachable)
    /\ [][TextShrinks]_vars
    /\ InSplitLoop ~> (call.op # "none" /\ call.pc = "done")

\* split_and_crop_lines has gone twice through the arm of two parts and
\* once through the arm of one part, and has returned three lines
C26_Witness ==
    /\ call.op = "split_and_crop_lines"
    /\ call.pc = "done"
    /\ call.text = <<>>
    /\ Len(call.res) = 2
    /\ Len(ret.val) = 3

---------------------------------------------------------------------------
(* Sequential runs of get_character_cell_size: any number of calls, so that
   a call finds the codepoint cache warm, cold or past an eviction *)

\* ASCII characters (DEL, in a range of the table, among them) and the
\* codepoints at and around the ends of the ranges of the table
Codepoints ==
    {97, 127, 128, 159, 160, 233, 767, 768, 879, 880, 4351, 4352, 4447, 4448,
     12288, 12350, 12351, 128506, 128507, 128591, 128592}

\* a call of get_character_cell_size(char)
GetCharacterCellSize ==
    /\ \E char \in Codepoints :
         \E r \in {get_character_cell_size(char, cp_cache)} :
         /\ call' = [op |-> "get_character_cell_size", char |-> char,
                     cached |-> LruHas(cp_cache, char)]
         /\ ret' = [panic |-> FALSE, val |-> r.val]
         /\ cp_cache' = r.cp
    /\ UNCHANGED <<len_cache, len_lock, cp_lock, len_poisoned, thr>>

NextChar == GetCharacterCellSize

SpecChar == InitCall /\ [][NextChar]_vars

(* C18: get_character_cell_size equals the linear scan of the width table:
   1 for an ASCII character; for another codepoint inside a range, 0 when
   the width of the range is -1 and that width otherwise; 1 for a codepoint
   in no range; and the same whether the codepoint is cached or not. *)
C18_CharacterSizeIsTableWidth ==
    call.op = "get_character_cell_size" => ret.val = Width(call.char)

\* a call answered from the cache, for the last codepoint of a range of
\* zero-width characters
C18_Witness ==
    /\ call.op = "get_character_cell_size"
    /\ call.cached
    /\ call.char = 879
    /\ ret.val = 0
    /\ Width(call.char) = 0

(* C24: after get_codepoint_cell_size(cp) returns for a non-ASCII codepoint
   cp, the codepoint cache holds cp mapped to the width returned, when cp
   lies in a range of the table and when it lies in none and gets the
   default width 1. *)
C24_ResultIsCached ==
    (call.op = "get_character_cell_size" /\ ~IsAscii(call.char)) =>
        \E i \in 1..Len(cp_cache) : cp_cache[i] = <<call.char, ret.val>>

---------------------------------------------------------------------------
(* Sequential runs of cell_len on the process-wide caches: any number of
   calls, on short strings and on strings at and over the length up to
   which results are cached *)

\* short strings, strings of the greatest length that is cached (64 bytes:
\* 16 characters of 4 bytes; 15 of them, a character of 2 bytes and two of 1
\* byte) and strings just over it (65 bytes, 66 bytes, 68 bytes)
LenTexts ==
    {<<>>, <<97>>, <<233>>, <<768>>, <<4352, 97>>,
     Repeat(128573, MaxCachedBytes \div 4),
     Repeat(128573, MaxCachedBytes \div 4 - 1) \o <<233, 97, 97>>,
     Repeat(128573, MaxCachedBytes \div 4) \o <<97>>,
     Repeat(128573, MaxCachedBytes \div 4) \o <<233>>,
     Repeat(128573, MaxCachedBytes \div 4 + 1)}

\* a call of cell_len(text, cache) on the default cache; `before` is the
\* cache as the call found it
CellLen ==
    /\ \E text \in LenTexts :
         \E r \in {cell_len(text, Caches)} :
         /\ call' = [op |-> "cell_len", text |-> text, before |-> len_cache]
         /\ ret' = [panic |-> FALSE, val |-> r.val]
         /\ len_cache' = r.cs.len
         /\ cp_cache' = r.cs.cp
    /\ UNCHANGED <<len_lock, cp_lock, len_poisoned, thr>>

NextLen == CellLen

SpecLen == InitCall /\ [][NextLen]_vars

(* C29: after any sequence of cell_len calls on a cache that starts empty,
   every key of the cell-length cache is a string of at most 64 bytes, the
   cache holds at most its capacity of entries, and a call with a longer
   string leaves the cache as it found it. *)
C29_LenCacheBounded ==
    /\ \A i \in 1..Len(len_cache) : ByteLen(len_cache[i][1]) <= 64
    /\ Len(len_cache) <= CacheCapacity
    /\ (call.op = "cell_len" /\ ByteLen(call.text) > 64) => len_cache = call.before

\* a call on a string of 65 bytes that found the cache full, a key of 64
\* bytes in it, and left it so
C29_Witness ==
    /\ call.op = "cell_len"
    /\ ByteLen(call.text) = 65
    /\ ret.val = CellWidth(call.text)
    /\ Len(len_cache) = CacheCapacity
    /\ \E i \in 1..Len(len_cache) : ByteLen(len_cache[i][1]) = 64
    /\ len_cache = call.before

---------------------------------------------------------------------------
(* The binary search of get_codepoint_cell_size, one iteration of its loop
   at a step, over every small table that is sorted and has disjoint ranges *)

MaxRanges == 4

MaxCodepoint == 4

\* the entries (start, end, width) a table can hold
Ranges ==
    {<<start, end, width>> : start \in 0..MaxCodepoint, end \in 0..MaxCodepoint,
                             width \in {-1, 2}}

RECURSIVE TablesFrom(_, _)
\* the tables of at most n ranges, sorted and disjoint, that start at lo or later
TablesFrom(lo, n) ==
    {<<>>} \cup
    (IF n = 0 THEN {}
     ELSE UNION {{<<r>> \o t : t \in TablesFrom(r[2] + 1, n - 1)} :
                    r \in {x \in Ranges : lo <= x[1] /\ x[1] <= x[2]}})

\* the non-empty tables
Tables == TablesFrom(0, MaxRanges) \ {<<>>}

\* get_codepoint_cell_size(codepoint) up to the loop: the cache is locked and
\* misses, the bounds and the first index are set
StartSearch ==
    /\ call.op = "none"
    /\ \E table \in Tables, codepoint \in 0..(MaxCodepoint + 1) :
         call' = [op |-> "get_codepoint_cell_size", table |-> table,
                  codepoint |-> codepoint, lower_bound |-> 0,
                  upper_bound |-> Len(table) - 1,
                  index |-> (0 + (Len(table) - 1)) \div 2, pc |-> "loop"]
    /\ UNCHANGED <<len_cache, cp_cache, len_lock, cp_lock, len_poisoned, thr, ret>>

\* Narrowed with the new bounds dropped: the loop goes round on the old ones
Narrowed_KeepsBounds(lower_bound, upper_bound) ==
    IF upper_bound < lower_bound
    THEN [call EXCEPT !.pc = "done"]
    ELSE [call EXCEPT !.index = (call.lower_bound + call.upper_bound) \div 2]

\* the call after one iteration that moved the bounds to lower_bound and
\* upper_bound: the break, or the next index
Narrowed(lower_bound, upper_bound) ==
    IF upper_bound < lower_bound
    THEN [call EXCEPT !.lower_bound = lower_bound, !.upper_bound = upper_bound,
                      !.pc = "done"]
    ELSE [call EXCEPT !.lower_bound = lower_bound, !.upper_bound = upper_bound,
                      !.index = (lower_bound + upper_bound) \div 2]

\* one iteration of the loop: table[index] is read (a panic when the index
\* is out of the table), the codepoint is compared with its range.  ret.val
\* is the sequence of the one width the call returns when it ends here.
SearchStep ==
    /\ call.op = "get_codepoint_cell_size"
    /\ call.pc = "loop"
    /\ IF call.index \notin 0..(Len(call.table) - 1)
       THEN /\ call' = [call EXCEPT !.pc = "panicked"]
            /\ ret' = [panic |-> TRUE, val |-> <<>>]
            /\ UNCHANGED cp_cache
       ELSE LET start == call.table[call.index + 1][1]
                end == call.table[call.index + 1][2]
                width == call.table[call.index + 1][3]
                result == IF width = -1 THEN 0 ELSE width
            IN  IF call.codepoint < start
                THEN /\ call' = Narrowed(call.lower_bound, call.index - 1)
                     /\ ret' = [panic |-> FALSE, val |-> <<1>>]
                     /\ UNCHANGED cp_cache
                ELSE IF call.codepoint > end
                THEN /\ call' = Narrowed(call.index + 1, call.upper_bound)
                     /\ ret' = [panic |-> FALSE, val |-> <<1>>]
                     /\ UNCHANGED cp_cache
                ELSE /\ call' = [call EXCEPT !.pc = "done"]
                     /\ ret' = [panic |-> FALSE, val |-> <<result>>]
                     /\ cp_cache' = LruPut(cp_cache, call.codepoint, result)
    /\ UNCHANGED <<len_cache, len_lock, cp_lock, len_poisoned, thr>>

NextSearch == StartSearch \/ SearchStep

\* a call that has started goes on
SpecSearch == InitCall /\ [][NextSearch]_vars /\ WF_vars(SearchStep)

\* the call is inside the loop
Searching == call.op = "get_codepoint_cell_size" /\ call.pc = "loop"

\* the index the loop is about to read lies in the table
IndexInTable == Searching => call.index \in 0..(Len(call.table) - 1)

\* an iteration that goes round again has narrowed the interval
Shrinks ==
    (Searching /\ Searching') =>
        (call.upper_bound' - call.lower_bound' < call.upper_bound - call.lower_bound)

(* C25: for every non-empty width table sorted by start with disjoint ranges
   and every codepoint, the binary search of get_codepoint_cell_size
   terminates, the index it reads always lies in 0..len-1, and the interval
   upper_bound - lower_bound shrinks strictly at each iteration. *)
C25_SearchTerminates ==
    /\ []IndexInTable
    /\ [][Shrinks]_vars
    /\ Searching ~> (call.op = "get_codepoint_cell_size" /\ call.pc = "done")

\* a search that read three entries of a table of four and ended past the
\* last of them, on the default width
C25_Witness ==
    /\ call.op = "get_codepoint_cell_size"
    /\ call.pc = "done"
    /\ Len(call.table) = 4
    /\ call.index = 3
    /\ call.lower_bound = 4
    /\ call.upper_bound = 3
    /\ ret.val = <<1>>

---------------------------------------------------------------------------
(* Sequential runs of apply_style *)

\* the styles applied and the styles of the segments: the null style, italic,
\* bold, bold switched off, red with a link, a link alone
ApplyStyles ==
    {StyleNew(<<>>, <<>>, {}, <<>>),
     StyleNew(<<>>, <<>>, {<<"italic", TRUE>>}, <<>>),
     StyleNew(<<>>, <<>>, {<<"bold", TRUE>>}, <<>>),
     StyleNew(<<>>, <<>>, {<<"bold", FALSE>>}, <<>>),
     StyleNew(<<"red">>, <<>>, {}, <<"a">>),
     StyleNew(<<>>, <<>>, {}, <<"b">>)}

OptApplyStyles == {<<>>} \cup {<<style>> : style \in ApplyStyles}

ApplySegments ==
    {SegmentNew(<<97>>, style, is_control) :
        style \in OptApplyStyles, is_control \in BOOLEAN}

\* a call of Segment::apply_style(segments, style), collected
ApplyStyle ==
    /\ call.op = "none"
    /\ \E segments \in SeqsOver(ApplySegments, MaxSegs), style \in OptApplyStyles :
         \E r \in {apply_style(segments, style)} :
         /\ call' = [op |-> "apply_style", segments |-> segments, style |-> style]
         /\ ret' = [panic |-> r.panic, val |-> r.val]
    /\ UNCHANGED <<len_cache, cp_cache, len_lock, cp_lock, len_poisoned, thr>>

NextApply == ApplyStyle

SpecApply == InitCall /\ [][NextApply]_vars

(* C19: apply_style(segments, Some(style)) returns one segment per input
   segment, in the same order, with the same text and is_control flag; every
   control segment has style None and every other segment the style
   style.combine(own style).  apply_style(segments, None) returns the
   segments unchanged. *)
C19_ApplyStyleShape ==
    call.op = "apply_style" =>
        /\ ~ret.panic
        /\ call.style = <<>> => SameSegments(ret.val, call.segments)
        /\ call.style # <<>> =>
             /\ Len(ret.val) = Len(call.segments)
             /\ \A i \in 1..Len(ret.val) :
                  /\ ret.val[i].text = call.segments[i].text
                  /\ ret.val[i].is_control = call.segments[i].is_control
                  /\ call.segments[i].is_control => ret.val[i].style = <<>>
                  /\ ~call.segments[i].is_control =>
                        ret.val[i].style =
                            <<combine(call.style[1], call.segments[i].style).val>>

\* the attributes a style has set, none for no style
SetOf(style) == IF style = <<>> THEN {} ELSE style[1].set_attributes

\* the attributes a style has switched on, none for no style
OnOf(style) == IF style = <<>> THEN {} ELSE style[1].attributes

(* C20: when apply_style applies a style S to a non-control segment of own
   style T, every attribute switched on in S and not set in T is switched on
   in the resulting style, and so is every attribute switched on in T and
   not set in S. *)
C20_CombineKeepsAttributes ==
    (call.op = "apply_style" /\ call.style # <<>> /\ ~ret.panic) =>
        \A i \in 1..Len(ret.val) :
            ~call.segments[i].is_control =>
                /\ (OnOf(call.style) \ SetOf(call.segments[i].style))
                       \subseteq OnOf(ret.val[i].style)
                /\ (OnOf(call.segments[i].style) \ SetOf(call.style))
                       \subseteq OnOf(ret.val[i].style)

(* C21: apply_style returns normally for every style and every sequence of
   segments, also when the applied style and a segment's own style both
   carry a link: Style::combine never reaches its unreachable!() arm. *)
C21_ApplyStyleReturns ==
    call.op = "apply_style" => ~ret.panic

---------------------------------------------------------------------------
(* utils/ratio: ratio_reduce, and its sequential runs *)

\* (a as f32 / b as f32).round() as i32 for b > 0: the nearest integer, a
\* half rounded away from zero
RoundDiv(a, b) ==
    IF a >= 0 THEN (2 * a + b) \div (2 * b) ELSE -((2 * (-a) + b) \div (2 * b))

\* ratios.iter().zip(maximums.iter()).map(..): the ratio, 0 where the
\* maximum is not positive
ZipRatios(ratios, maximums) ==
    [i \in 1..(IF Len(ratios) < Len(maximums) THEN Len(ratios) ELSE Len(maximums)) |->
        IF maximums[i] > 0 THEN ratios[i] ELSE 0]

RECURSIVE ReduceLoop(_, _, _, _, _, _, _)
\* the for loop of ratio_reduce from entry i on: the result
ReduceLoop(ratios, maximums, values, i, total_ratio, total_remaining, result) ==
    LET Distributed(distributed) ==
            ReduceLoop(ratios, maximums, values, i + 1, total_ratio - ratios[i],
                       total_remaining - distributed, Append(result, values[i] - distributed))
        Min(a, b) == IF a < b THEN a ELSE b
    IN  IF i > Len(ratios) \/ i > Len(maximums) \/ i > Len(values) THEN result
        ELSE IF ratios[i] > 0 /\ total_ratio > 0
        THEN Distributed(Min(maximums[i],
                             RoundDiv(ratios[i] * total_remaining, total_ratio)))
        ELSE ReduceLoop(ratios, maximums, values, i + 1, total_ratio, total_remaining,
                        result)

\* ratio_reduce(total, ratios, maximums, values)
ratio_reduce(total, ratios, maximums, values) ==
    LET Reduced(zipped) ==
            IF Sum(zipped) <= 0 THEN values
            ELSE ReduceLoop(zipped, maximums, values, 1, Sum(zipped), total, <<>>)
    IN  Reduced(ZipRatios(ratios, maximums))

MaxRatioLen == 2

MaxRatio == 2

\* a call of ratio_reduce(total, ratios, maximums, values) on slices of one length
RatioReduce ==
    /\ call.op = "none"
    /\ \E n \in 0..MaxRatioLen, total \in 0..MaxTotal :
         \E ratios \in [1..n -> 0..MaxRatio], maximums \in [1..n -> 0..MaxRatio],
            values \in [1..n -> 1..MaxRatio] :
         /\ call' = [op |-> "ratio_reduce", total |-> total, ratios |-> ratios,
                     maximums |-> maximums, values |-> values]
         /\ ret' = [panic |-> FALSE,
                    val |-> ratio_reduce(total, ratios, maximums, values)]
    /\ UNCHANGED <<len_cache, cp_cache, len_lock, cp_lock, len_poisoned, thr>>

NextRatio == RatioReduce

SpecRatio == InitCall /\ [][NextRatio]_vars

\* entry i takes no part in the reduction
NoShare(i) == call.ratios[i] = 0 \/ call.maximums[i] = 0

(* C30: ratio_reduce returns one entry for each input value, for all inputs
   of equal lengths, also when some but not all entries have ratio 0 or
   maximum 0; such an entry keeps its value. *)
C30_OneEntryPerValue ==
    call.op = "ratio_reduce" =>
        /\ Len(ret.val) = Len(call.values)
        /\ \A i \in 1..Len(call.values) : NoShare(i) => ret.val[i] = call.values[i]

---------------------------------------------------------------------------
(* Concurrent runs: threads call Segment::cell_len, set_cell_size and
   divide_line on the two process-wide caches.  A thread takes a step at
   each access to a mutex-guarded cache; what it does between two accesses
   touches only its own locals. *)

Threads == {"t1", "t2"}

\* the calls the threads make
CellLenTexts == {<<768>>, <<4352>>}
SetCellSizeCalls == {[text |-> <<128573, 4352>>, total |-> 3]}
DivideLineCalls == {[text |-> <<97, 32, 128573>>, width |-> 1, fold |-> <<>>],
                    [text |-> <<768, 97>>, width |-> 1, fold |-> <<FALSE>>],
                    [text |-> <<97, 97>>, width |-> 1, fold |-> <<TRUE>>]}

\* a thread outside of any call
Idle == [pc |-> "idle", op |-> "none", text |-> <<>>, total |-> 0,
         width |-> 0, fold |-> TRUE,
         m_text |-> <<>>, m_i |-> 0, m_acc |-> 0, m_ret |-> "idle", val |-> 0,
         ws |-> <<>>, divides |-> <<>>, line_position |-> 0,
         chars |-> <<>>, total_size |-> 0, lines |-> <<>>, sizes |-> <<>>]

\* a thread whose call panicked
Panicked == [Idle EXCEPT !.pc = "panicked"]

Init ==
    /\ len_cache = <<>>
    /\ cp_cache = <<>>
    /\ len_lock = <<>>
    /\ cp_lock = <<>>
    /\ len_poisoned = FALSE
    /\ thr = [t \in Threads |-> Idle]
    /\ call = [op |-> "none"]
    /\ ret = [panic |-> FALSE, val |-> <<>>]

\* Segment::cell_len of a segment that is no control segment
CallCellLen(t) ==
    /\ thr[t].pc = "idle"
    /\ \E text \in CellLenTexts :
         thr' = [thr EXCEPT ![t] = [Idle EXCEPT !.pc = "lock", !.op = "cell_len",
                                                !.text = text, !.m_text = text,
                                                !.m_ret = "cl_done"]]
    /\ UNCHANGED <<len_cache, cp_cache, len_lock, cp_lock, len_poisoned, call, ret>>

\* set_cell_size(text, total)
CallSetCellSize(t) ==
    /\ thr[t].pc = "idle"
    /\ \E c \in SetCellSizeCalls :
         thr' = [thr EXCEPT ![t] = [Idle EXCEPT !.pc = "lock", !.op = "set_cell_size",
                                                !.text = c.text, !.total = c.total,
                                                !.m_text = c.text,
                                                !.m_ret = "scs_measured"]]
    /\ UNCHANGED <<len_cache, cp_cache, len_lock, cp_lock, len_poisoned, call, ret>>

\* divide_line(text, width, fold)
CallDivideLine(t) ==
    /\ thr[t].pc = "idle"
    /\ \E c \in DivideLineCalls :
         thr' = [thr EXCEPT ![t] = [Idle EXCEPT !.pc = "dl_next", !.op = "divide_line",
                                                !.text = c.text, !.width = c.width,
                                                !.fold = FoldOf(c.fold),
                                                !.ws = words(c.text)]]
    /\ UNCHANGED <<len_cache, cp_cache, len_lock, cp_lock, len_poisoned, call, ret>>

\* for (start, end, word) in words(text): the next word, or the return of the
\* divides
DlNext(t) ==
    /\ thr[t].pc = "dl_next"
    /\ thr' = [thr EXCEPT ![t] =
                 IF thr[t].ws = <<>> THEN Idle
                 ELSE [@ EXCEPT !.pc = "lock", !.m_text = TrimEnd(Head(thr[t].ws).word),
                                !.m_ret = "dl_measured"]]
    /\ UNCHANGED <<len_cache, cp_cache, len_lock, cp_lock, len_poisoned, call, ret>>

\* DEFAULT_CELL_LEN_CACHE.lock().unwrap(): blocks while the mutex is held,
\* panics when it is poisoned
Lock(t) ==
    /\ thr[t].pc = "lock"
    /\ len_lock = <<>>
    /\ IF len_poisoned
       THEN thr' = [thr EXCEPT ![t] = Panicked] /\ UNCHANGED len_lock
       ELSE thr' = [thr EXCEPT ![t].pc = "get"] /\ len_lock' = <<t>>
    /\ UNCHANGED <<len_cache, cp_cache, cp_lock, len_poisoned, call, ret>>

\* cell_len: cache.get(&text)
Get(t) ==
    /\ thr[t].pc = "get"
    /\ \E g \in {LruGet(len_cache, thr[t].m_text)} :
         /\ len_cache' = g.cache
         /\ thr' = [thr EXCEPT ![t] =
                      IF g.hit
                      THEN [@ EXCEPT !.val = g.val, !.pc = thr[t].m_ret]
                      ELSE [@ EXCEPT !.pc = "sum", !.m_i = 0, !.m_acc = 0]]
    /\ UNCHANGED <<cp_cache, len_lock, cp_lock, len_poisoned, call, ret>>

\* cell_len: cache.put(text, total_size) once the characters are summed
Put(t) ==
    /\ thr[t].pc = "sum"
    /\ thr[t].m_i = Len(thr[t].m_text)
    /\ len_cache' = IF ByteLen(thr[t].m_text) <= MaxCachedBytes
                    THEN LruPut(len_cache, thr[t].m_text, thr[t].m_acc)
                    ELSE len_cache
    /\ thr' = [thr EXCEPT ![t] = [@ EXCEPT !.val = thr[t].m_acc, !.pc = thr[t].m_ret]]
    /\ UNCHANGED <<cp_cache, len_lock, cp_lock, len_poisoned, call, ret>>

\* the loops that size characters one by one: the sum of cell_len, the
\* character_sizes of set_cell_size, the loop of chop_cells
CharLoops == {"sum", "trunc", "chop"}

InCpLookup == {"sum_cp", "trunc_cp", "chop_cp"}

\* the loop a thread is in
LoopOf(th) == IF th.pc \in {"sum", "sum_cp"} THEN "sum"
              ELSE IF th.pc \in {"trunc", "trunc_cp"} THEN "trunc" ELSE "chop"

\* the loop has a character left to size
HasChar(th) == IF LoopOf(th) = "sum" THEN th.m_i < Len(th.m_text) ELSE th.chars # <<>>

\* the character the loop is to size
CurChar(th) == IF LoopOf(th) = "sum" THEN th.m_text[th.m_i + 1] ELSE Head(th.chars)

\* one iteration of the loop of chop_cells on (character, size)
ChopStep(th, size) ==
    IF th.total_size + size > th.width
    THEN [th EXCEPT !.lines = Append(@, <<Head(th.chars)>>), !.total_size = size,
                    !.chars = Tail(@), !.pc = "chop"]
    ELSE IF th.lines = <<>>
    THEN Panicked
    ELSE [th EXCEPT !.lines[Len(th.lines)] = Append(@, Head(th.chars)),
                    !.total_size = size, !.chars = Tail(@), !.pc = "chop"]

\* what the loop does with the size of its character
CharStep(th, size) ==
    IF LoopOf(th) = "sum"
    THEN [th EXCEPT !.m_acc = @ + size, !.m_i = @ + 1, !.pc = "sum"]
    ELSE IF LoopOf(th) = "trunc"
    THEN [th EXCEPT !.sizes = Append(@, size), !.chars = Tail(@), !.pc = "trunc"]
    ELSE ChopStep(th, size)

\* the thread goes on as `new`; a panic unwinds its guard of the cell-length
\* cache, which poisons the mutex
Continue(t, new) ==
    /\ thr' = [thr EXCEPT ![t] = new]
    /\ len_lock' = IF new.pc = "panicked" /\ len_lock = <<t>> THEN <<>> ELSE len_lock
    /\ len_poisoned' = (len_poisoned \/ (new.pc = "panicked" /\ len_lock = <<t>>))

\* get_character_cell_size of an ASCII character
CharAscii(t) ==
    /\ thr[t].pc \in CharLoops
    /\ HasChar(thr[t])
    /\ IsAscii(CurChar(thr[t]))
    /\ Continue(t, CharStep(thr[t], 1))
    /\ UNCHANGED <<len_cache, cp_cache, cp_lock, call, ret>>

\* get_codepoint_cell_size: CODEPOINT_CELL_SIZE_CACHE.lock().unwrap()
LockCp(t) ==
    /\ thr[t].pc \in CharLoops
    /\ HasChar(thr[t])
    /\ ~IsAscii(CurChar(thr[t]))
    /\ cp_lock = <<>>
    /\ cp_lock' = <<t>>
    /\ thr' = [thr EXCEPT ![t].pc = IF @ = "sum" THEN "sum_cp"
                                    ELSE IF @ = "trunc" THEN "trunc_cp" ELSE "chop_cp"]
    /\ UNCHANGED <<len_cache, cp_cache, len_lock, len_poisoned, call, ret>>

\* get_codepoint_cell_size under its guard: the cache, the table, the put
CpLookup(t) ==
    /\ thr[t].pc \in InCpLookup
    /\ \E r \in {get_codepoint_cell_size(CurChar(thr[t]), cp_cache)} :
         /\ cp_cache' = r.cp
         /\ Continue(t, CharStep(thr[t], r.val))
    /\ cp_lock' = <<>>
    /\ UNCHANGED <<len_cache, call, ret>>

\* Segment::cell_len returns the length; its guard is dropped
ClDone(t) ==
    /\ thr[t].pc = "cl_done"
    /\ len_lock' = <<>>
    /\ thr' = [thr EXCEPT ![t] = Idle]
    /\ UNCHANGED <<len_cache, cp_cache, cp_lock, len_poisoned, call, ret>>

\* ScsMeasured with the guard of the cell-length cache kept past the
\* statement that takes it
ScsMeasured_KeepsGuard(t) ==
    /\ thr[t].pc = "scs_measured"
    /\ thr' = [thr EXCEPT ![t] =
                 IF @.val <= @.total THEN Idle
                 ELSE [@ EXCEPT !.pc = "trunc", !.chars = thr[t].text, !.sizes = <<>>]]
    /\ UNCHANGED <<len_cache, cp_cache, len_lock, cp_lock, len_poisoned, call, ret>>

\* set_cell_size after cell_len: the guard is dropped; the text or the padded
\* text is returned, or the characters are sized to cut the text
ScsMeasured(t) ==
    /\ thr[t].pc = "scs_measured"
    /\ len_lock' = <<>>
    /\ thr' = [thr EXCEPT ![t] =
                 IF @.val <= @.total THEN Idle
                 ELSE [@ EXCEPT !.pc = "trunc", !.chars = thr[t].text, !.sizes = <<>>]]
    /\ UNCHANGED <<len_cache, cp_cache, cp_lock, len_poisoned, call, ret>>

\* set_cell_size returns the cut text
TruncDone(t) ==
    /\ thr[t].pc = "trunc"
    /\ thr[t].chars = <<>>
    /\ thr' = [thr EXCEPT ![t] = Idle]
    /\ UNCHANGED <<len_cache, cp_cache, len_lock, cp_lock, len_poisoned, call, ret>>

\* the end of one iteration of divide_line: drop(len_cache), next word
EndOfWord(th) == [th EXCEPT !.ws = Tail(@), !.pc = "dl_next"]

\* divide_line after cell_len(word.trim_end()): the branch on word_len
DlMeasured(t) ==
    LET th == thr[t]
        w == Head(th.ws)
        Measure(ret_pc, divides) ==
            /\ thr' = [thr EXCEPT ![t] = [@ EXCEPT !.pc = "get", !.m_text = w.word,
                                                   !.m_ret = ret_pc,
                                                   !.divides = divides]]
            /\ UNCHANGED len_lock
    IN  /\ th.pc = "dl_measured"
        /\ IF th.line_position + th.val > th.width
           THEN IF th.val > th.width
                THEN IF th.fold
                     THEN /\ thr' = [thr EXCEPT ![t] =
                                       [@ EXCEPT !.pc = "chop", !.chars = Reverse(w.word),
                                                 !.total_size = th.line_position,
                                                 !.lines = <<>>]]
                          /\ UNCHANGED len_lock
                     ELSE Measure("dl_reset", IF w.start > 0
                                              THEN Append(th.divides, w.start)
                                              ELSE th.divides)
                ELSE IF th.line_position > 0 /\ w.start > 0
                     THEN Measure("dl_reset", Append(th.divides, w.start))
                     ELSE /\ thr' = [thr EXCEPT ![t] = EndOfWord(@)]
                          /\ len_lock' = <<>>
           ELSE Measure("dl_add", th.divides)
        /\ UNCHANGED <<len_cache, cp_cache, cp_lock, len_poisoned, call, ret>>

RECURSIVE FoldDivides(_, _, _)
\* the offsets loop_last pushes for the chunks but the last
FoldDivides(lines, start, divides) ==
    IF Len(lines) <= 1 THEN divides
    ELSE FoldDivides(Tail(lines), start + ByteLen(Head(lines)),
                     Append(divides, start + ByteLen(Head(lines))))

\* chop_cells returned: the offsets of the chunks but the last, then
\* cell_len of the last chunk
ChopDone(t) ==
    /\ thr[t].pc = "chop"
    /\ thr[t].chars = <<>>
    /\ thr' = [thr EXCEPT ![t] =
                 [@ EXCEPT !.pc = "get", !.m_text = thr[t].lines[Len(thr[t].lines)],
                           !.m_ret = "dl_reset",
                           !.divides = FoldDivides(thr[t].lines, Head(thr[t].ws).start,
                                                   thr[t].divides)]]
    /\ UNCHANGED <<len_cache, cp_cache, len_lock, cp_lock, len_poisoned, call, ret>>

\* line_position = cell_len(..), then the end of the iteration
DlReset(t) ==
    /\ thr[t].pc = "dl_reset"
    /\ len_lock' = <<>>
    /\ thr' = [thr EXCEPT ![t] = EndOfWord([@ EXCEPT !.line_position = thr[t].val])]
    /\ UNCHANGED <<len_cache, cp_cache, cp_lock, len_poisoned, call, ret>>

\* line_position += cell_len(word), then the end of the iteration
DlAdd(t) ==
    /\ thr[t].pc = "dl_add"
    /\ len_lock' = <<>>
    /\ thr' = [thr EXCEPT ![t] = EndOfWord([@ EXCEPT !.line_position = @ + thr[t].val])]
    /\ UNCHANGED <<len_cache, cp_cache, cp_lock, len_poisoned, call, ret>>

Next ==
    \E t \in Threads :
        \/ CallCellLen(t)
        \/ CallSetCellSize(t)
        \/ CallDivideLine(t)
        \/ DlNext(t)
        \/ Lock(t)
        \/ Get(t)
        \/ Put(t)
        \/ CharAscii(t)
        \/ LockCp(t)
        \/ CpLookup(t)
        \/ ClDone(t)
        \/ ScsMeasured(t)
        \/ TruncDone(t)
        \/ DlMeasured(t)
        \/ ChopDone(t)
        \/ DlReset(t)
        \/ DlAdd(t)

Spec == Init /\ [][Next]_vars

\* the steps of a thread inside a call that wait for no mutex
Run(t) ==
    \/ DlNext(t)
    \/ Get(t)
    \/ Put(t)
    \/ CharAscii(t)
    \/ CpLookup(t)
    \/ ClDone(t)
    \/ ScsMeasured(t)
    \/ TruncDone(t)
    \/ DlMeasured(t)
    \/ ChopDone(t)
    \/ DlReset(t)
    \/ DlAdd(t)

\* The threads are scheduled: a thread inside a call that can take a step
\* again and again does take one, so a thread waiting in lock() gets the
\* mutex when the mutex is released again and again.  No thread is obliged
\* to start a call.
SpecLive ==
    /\ Init /\ [][Next]_vars
    /\ \A t \in Threads : SF_vars(Run(t) \/ Lock(t) \/ LockCp(t))

\* the keys of a cache
LruKeys(cache) == {cache[i][1] : i \in 1..Len(cache)}

\* the positions of a thread at which cell_len has just returned
AfterCellLen == {"cl_done", "scs_measured", "dl_measured", "dl_reset", "dl_add"}

(* C8: cache coherence.  At every moment of every interleaving, every entry
   of the cell-length cache maps its string to the sum of the table widths
   of its characters, every entry of the codepoint cache maps its codepoint
   to its table width, and whenever cell_len has returned to a thread the
   value it returned is the uncached sum for the text. *)
C8_CacheCoherence ==
    /\ \A i \in 1..Len(len_cache) : len_cache[i][2] = CellWidth(len_cache[i][1])
    /\ \A i \in 1..Len(cp_cache) : cp_cache[i][2] = Width(cp_cache[i][1])
    /\ \A t \in Threads :
         thr[t].pc \in AfterCellLen => thr[t].val = CellWidth(thr[t].m_text)

\* both caches are full and have evicted what a thread cached earlier in its
\* call: the text set_cell_size measured, and the first character it then
\* sized, are in the caches no more, while the other thread has just been
\* returned a length
C8_Witness ==
    /\ Len(len_cache) = CacheCapacity
    /\ Len(cp_cache) = CacheCapacity
    /\ \E t \in Threads, u \in Threads :
         /\ t # u
         /\ thr[t].pc = "trunc"
         /\ Len(thr[t].sizes) >= 1
         /\ ~IsAscii(thr[t].text[1])
         /\ thr[t].text \notin LruKeys(len_cache)
         /\ thr[t].text[1] \notin LruKeys(cp_cache)
         /\ thr[u].pc \in AfterCellLen
         /\ thr[u].val = CellWidth(thr[u].m_text)

\* a thread about to call lock() on the mutex of the cell-length cache
WantsLen(t) == thr[t].pc = "lock"

\* a thread about to call lock() on the mutex of the codepoint cache
WantsCp(t) ==
    thr[t].pc \in CharLoops /\ HasChar(thr[t]) /\ ~IsAscii(CurChar(thr[t]))

\* the order of the mutexes is cell-length cache, then codepoint cache: a
\* thread that asks for the first holds neither, a thread that asks for the
\* second does not hold it, and a thread holds the second only for the
\* lookup
LockOrder ==
    \A t \in Threads :
        /\ WantsLen(t) => len_lock # <<t>> /\ cp_lock # <<t>>
        /\ WantsCp(t) => cp_lock # <<t>>
        /\ cp_lock = <<t>> <=> thr[t].pc \in InCpLookup

(* C22: no deadlock under concurrent use.  In every interleaving of the
   threads' calls of Segment::cell_len, set_cell_size and divide_line, the
   two mutexes are taken in the same order, no thread takes a mutex it
   holds, and every call returns or panics. *)
C22_NoDeadlock ==
    /\ []LockOrder
    /\ \A t \in Threads : (thr[t].pc # "idle") ~> (thr[t].pc \in {"idle", "panicked"})

\* a thread waits for the mutex of the cell-length cache while the other
\* holds both mutexes, inside the lookup of a character of the text it sums
C22_Witness ==
    \E t \in Threads, u \in Threads :
        /\ t # u
        /\ WantsLen(t)
        /\ len_lock = <<u>>
        /\ cp_lock = <<u>>
        /\ thr[u].pc = "sum_cp"
        /\ LockOrder

=============================================================================
